---- MODULE Spec2Model ----
(***************************************************************************)
(* The multi-server MCP client manager of src/tool/mcp_client.py           *)
(* (MCPClients, MCPClientTool) as a state machine.                         *)
(*                                                                         *)
(* Every coroutine of the manager runs on one event loop: the code between *)
(* two awaits is one atomic step, and at an await any other task may run.  *)
(* A task is therefore a record with a program position `pc` naming the    *)
(* await it is suspended on; one action resolves that await (with one of   *)
(* the outcomes the awaited call can have) and runs the code up to the     *)
(* next await.                                                             *)
(*                                                                         *)
(* anyio.move_on_after(d) is a cancel scope: when the deadline fires the   *)
(* await inside it is cancelled and the scope swallows the cancellation,   *)
(* so control continues normally after the `with` block.  The outcome      *)
(* "timeout" of an await below is that firing.                             *)
(***************************************************************************)
EXTENDS Integers, Sequences, FiniteSets, TLC

\* ------------------------------------------------------------------ bounds
\* Number of connect attempts (each creates one AsyncExitStack) in a run.
MaxAttempts == 3

\* Number of calls that concurrent callers make in a run.
MaxCalls == 3

\* The tasks that call the manager concurrently.
Tasks == {"t1", "t2", "t3", "t4"}

\* The task that makes its calls on a second MCPClients instance; every
\* other task calls the first one.
Peer == "t4"

\* Server ids, in ascending order of Python's str comparison.
IdOrder == <<"A", "A_b", "B", "C">>
ServerIds == {IdOrder[i] : i \in 1..Len(IdOrder)}

\* Names of the tools a remote server can report.
RemoteNames == {"f", "g", "b_f"}

\* The tool lists a server can answer list_tools() with.
\* The remote tools that MarketIndexTool._run calls.
IndexTools == {"get_index_realtime_data", "get_turnover_history_data"}

ToolLists == {{}, {"f"}, {"f", "g"}, {"b_f"}, IndexTools}

\* The server ids and the tool lists of the plain runs.
PlainIds == {"A", "B"}
PlainLists == {{}, {"f"}, {"f", "g"}}

Attempts == 1..MaxAttempts

\* The empty string: Python's default for server_id, a falsy url/command.
NoId == ""
\* None, for an attempt number (a session or an exit stack object).
None == 0

\* ------------------------------------------------------------- dictionaries
\* A Python dict that is iterated is a sequence of entries in insertion
\* order; pop leaves a dummy entry behind (CPython's entries array), which
\* an iterator steps over.
Dummy == [k |-> NoId, v |-> None]

DictKeys(d) == {d[i].k : i \in 1..Len(d)} \ {NoId}

DictHas(d, key) == key # NoId /\ key \in DictKeys(d)

DictIndex(d, key) == CHOOSE i \in 1..Len(d) : d[i].k = key

\* dict.get(key): the value, or None.
DictGet(d, key) == IF DictHas(d, key) THEN d[DictIndex(d, key)].v ELSE None

\* d[key] = value: in place for a key that is present, appended otherwise.
DictSet(d, key, value) ==
    IF DictHas(d, key)
    THEN [d EXCEPT ![DictIndex(d, key)] = [k |-> key, v |-> value]]
    ELSE Append(d, [k |-> key, v |-> value])

\* d.pop(key, None)
DictPop(d, key) ==
    IF DictHas(d, key) THEN [d EXCEPT ![DictIndex(d, key)] = Dummy] ELSE d

\* len(d)
DictLen(d) == Cardinality(DictKeys(d))

\* list(d.keys()): the keys in insertion order.
RECURSIVE DictKeyList(_)
DictKeyList(d) ==
    IF d = <<>> THEN <<>>
    ELSE IF Head(d).k = NoId THEN DictKeyList(Tail(d))
    ELSE <<Head(d).k>> \o DictKeyList(Tail(d))

\* str < str for the server ids of the model.
Rank(id) == CHOOSE i \in 1..Len(IdOrder) : IdOrder[i] = id
StrLess(a, b) == Rank(a) < Rank(b)

\* sorted(seq): insertion sort by StrLess.
RECURSIVE InsertSorted(_, _)
InsertSorted(x, s) ==
    IF s = <<>> THEN <<x>>
    ELSE IF StrLess(x, Head(s)) THEN <<x>> \o s
    ELSE <<Head(s)>> \o InsertSorted(x, Tail(s))

\* Mutant of sorted: the keys are left in insertion order.
sorted_Unsorted(s) == s

RECURSIVE sorted(_)
sorted(s) == IF s = <<>> THEN <<>> ELSE InsertSorted(Head(s), sorted(Tail(s)))

\* ------------------------------------------------------------------- state
VARIABLES
    sessions,      \* MCPClients.sessions: dict server_id -> ClientSession
    exit_stacks,   \* MCPClients.exit_stacks: server_id -> AsyncExitStack
    tool_map,      \* ToolCollection.tool_map: tool name -> MCPClientTool
    tools,         \* ToolCollection.tools: tuple(tool_map.values())
    nattempts,     \* number of AsyncExitStack objects created so far
    stack,         \* per exit stack: the contexts entered, oldest first
    released,      \* per exit stack: the contexts exited, first exit first
    transport,     \* per attempt: state of its sse_client / stdio_client
    sess,          \* per attempt: state of its ClientSession
    task,          \* per task: the call it runs and the await it is at
    att_id,        \* per attempt: the server id it was made for
    disconnected,  \* ids whose disconnect returned, no connect since
    chain,         \* the last successful connect of the current run of
                   \* connect calls that all name one server id
    ncalls,        \* number of calls made so far by concurrent callers
    peer_tool_map, \* tool_map of the second MCPClients instance
    peer_tools,    \* tools of the second MCPClients instance
    mcp_config,    \* MarketIndexTool._mcp_config: enabled, and the items
                   \* of mcpServers in the order of the dict
    initialized,   \* MarketIndexTool._initialized
    frame,         \* per task: the MarketIndexTool coroutine it runs
    connects       \* per configured server: the connect_* calls that
                   \* initialize() has made for it

vars == <<sessions, exit_stacks, tool_map, tools, nattempts, stack, released,
          transport, sess, task, att_id, disconnected, chain, ncalls,
          peer_tool_map, peer_tools, mcp_config, initialized, frame,
          connects>>

\* ------------------------------------------------------------- tool calls
\* None, for the output or the error of a ToolResult.
Unset == "<None>"

\* ToolResult(output=..., error=...); a field that is not passed is None.
ToolResult(output, error) == [output |-> output, error |-> error]

\* No ToolResult yet.
NoResult == ToolResult(Unset, Unset)

\* The items of result.content: TextContent carries a text, other content
\* (an image, an embedded resource) does not.
TextContent(text) == [type |-> "text", text |-> text]
ImageContent == [type |-> "image", text |-> "<data>"]

\* How an await of session.call_tool() ends: with a CallToolResult (isError
\* is set when the server ran the tool and reports an application error;
\* content holds the payload or the error text), or with an exception.
CallToolResult(isError, content) ==
    [kind |-> "result", isError |-> isError, content |-> content, message |-> ""]
Raised(message) ==
    [kind |-> "exception", isError |-> FALSE, content |-> <<>>, message |-> message]
NoAnswer ==
    [kind |-> "none", isError |-> FALSE, content |-> <<>>, message |-> ""]

\* The str(e) of the exceptions call_tool raises: the channel broke, the
\* session is closed already, the peer violated the protocol.
Exceptions == {"channel broken", "session closed", "protocol error"}

\* The results a server answers a call with.
Results ==
    {CallToolResult(FALSE, <<TextContent("42")>>),
     CallToolResult(FALSE, <<TextContent("4"), ImageContent, TextContent("2")>>),
     CallToolResult(FALSE, <<>>),
     CallToolResult(FALSE, <<ImageContent>>),
     CallToolResult(TRUE, <<TextContent("no such symbol")>>)}

Answers == Results \cup {Raised(m) : m \in Exceptions}

\* The answers of the plain runs: a text payload, a broken channel.
PlainAnswers == {CallToolResult(FALSE, <<TextContent("42")>>), Raised("channel broken")}

\* ", ".join(item.text for item in content if isinstance(item, TextContent))
RECURSIVE JoinTexts(_)
JoinTexts(content) ==
    IF content = <<>> THEN ""
    ELSE LET rest == JoinTexts(Tail(content))
         IN IF Head(content).type # "text" THEN rest
            ELSE IF \A i \in 2..Len(content) : content[i].type # "text"
            THEN Head(content).text
            ELSE Head(content).text \o ", " \o rest

\* ----------------------------------------------------------------- helpers
\* A task that runs nothing.
IdleTask ==
    [op |-> "none", pc |-> "idle", id |-> NoId, target |-> NoId,
     att |-> None, res |-> "none",
     timed_out |-> FALSE, was_conn |-> FALSE,
     d_id |-> NoId, d_stack |-> None, d_sess |-> None, d_ret |-> "none",
     sh_out |-> "none", ac_out |-> "none",
     todo |-> <<>>, known |-> <<>>, done |-> <<>>,
     lt_i |-> 0, lt_len |-> 0, lt_q |-> <<>>,
     x_name |-> "", x_sess |-> None, x_calls |-> 0, x_during |-> {},
     x_answer |-> NoAnswer, x_result |-> NoResult]

\* No successful connect in the current run of connect calls.
NoChain == [id |-> NoId, found |-> {}]

\* The manager as task t sees it: the shared state and t's own frame `tk`.
\* sessions and exit_stacks are attributes of the class MCPClients, which
\* __init__ does not rebind: every instance reads and writes the same two
\* dicts.  tool_map and tools are attributes of the instance.
Cfg(t) ==
    [sessions |-> sessions, exit_stacks |-> exit_stacks,
     tool_map |-> IF t = Peer THEN peer_tool_map ELSE tool_map,
     tools |-> IF t = Peer THEN peer_tools ELSE tools,
     nattempts |-> nattempts, stack |-> stack,
     released |-> released,
     transport |-> transport, sess |-> sess, att_id |-> att_id,
     disconnected |-> disconnected, chain |-> chain, tk |-> task[t]]

\* The step of task t that ends in configuration c, for the manager.
Assign(t, c) ==
    /\ sessions' = c.sessions
    /\ exit_stacks' = c.exit_stacks
    /\ tool_map' = IF t = Peer THEN tool_map ELSE c.tool_map
    /\ tools' = IF t = Peer THEN tools ELSE c.tools
    /\ peer_tool_map' = IF t = Peer THEN c.tool_map ELSE peer_tool_map
    /\ peer_tools' = IF t = Peer THEN c.tools ELSE peer_tools
    /\ nattempts' = c.nattempts
    /\ stack' = c.stack
    /\ released' = c.released
    /\ transport' = c.transport
    /\ sess' = c.sess
    /\ att_id' = c.att_id
    /\ disconnected' = c.disconnected
    /\ chain' = c.chain
    /\ task' = [task EXCEPT ![t] = c.tk]

\* The step of task t that ends in configuration c: a step inside the
\* manager, which does not touch the MarketIndexTool.
Apply(t, c) ==
    /\ Assign(t, c)
    /\ UNCHANGED <<mcp_config, initialized, frame, connects>>

\* The call of the task returns (res = "ok") or raises (res = "raised").
Return(c, res) ==
    [c EXCEPT !.tk = [c.tk EXCEPT !.pc = "idle", !.res = res,
                                  !.d_id = NoId, !.d_stack = None,
                                  !.d_sess = None, !.d_ret = "none",
                                  !.todo = <<>>, !.lt_i = 0, !.lt_len = 0]]

\* A connect_* call for server id sid is in progress on some task.
ConnectInProgress(sid) ==
    \E u \in Tasks : /\ task[u].op = "connect"
                     /\ task[u].pc # "idle"
                     /\ task[u].id = sid

\* ------------------------------------------------------------------- tools
\* f"mcp_{server_id}_{original_name}"
ToolName(server_id, original_name) ==
    "mcp_" \o server_id \o "_" \o original_name

EmptyMap == [n \in {} |-> None]

\* tuple(self.tool_map.values())
Values(tm) == {tm[n] : n \in DOMAIN tm}

\* Mutant of RemoveTools: nothing is filtered out.
RemoveTools_KeepAll(tm, server_id) == tm

\* Mutant of RemoveTools: the tools of every server are removed.
RemoveTools_RemovesAll(tm, server_id) == EmptyMap

\* {k: v for k, v in self.tool_map.items() if v.server_id != server_id}
RemoveTools(tm, server_id) ==
    [n \in {x \in DOMAIN tm : tm[x].server_id # server_id} |-> tm[n]]

\* The descriptor a server reports for its tool named r (an element of
\* response.tools): name, description and inputSchema.
Descriptor(r) ==
    [name |-> r, description |-> "about " \o r, inputSchema |-> "schema of " \o r]

\* Mutant of Proxy: the proxy calls the remote tool by its prefixed name.
Proxy_CallsPrefixedName(tool_name, tool, session, server_id) ==
    [name |-> tool_name,
     description |-> tool.description,
     parameters |-> tool.inputSchema,
     session |-> session,
     server_id |-> server_id,
     original_name |-> tool_name]

\* MCPClientTool(name=tool_name, description=tool.description,
\* parameters=tool.inputSchema, session=session, server_id=server_id,
\* original_name=original_name)
Proxy(tool_name, tool, session, server_id) ==
    [name |-> tool_name,
     description |-> tool.description,
     parameters |-> tool.inputSchema,
     session |-> session,
     server_id |-> server_id,
     original_name |-> tool.name]

\* The loop of _initialize_and_list_tools: one MCPClientTool per remote
\* tool, stored under its prefixed name (a later store to the same name wins).
RegisterTools(tm, server_id, session, remote) ==
    LET names == {ToolName(server_id, r) : r \in remote}
        new == [n \in names |->
                  Proxy(n, Descriptor(CHOOSE r \in remote : ToolName(server_id, r) = n),
                        session, server_id)]
    IN new @@ tm

\* -------------------------------------------------------------- disconnect
\* Mutant of DisconnectPop: the session stays in sessions while it is shut
\* down.
DisconnectPop_KeepsSession(c, server_id, ret) ==
    [c EXCEPT !.tk = [c.tk EXCEPT !.pc = "shutdown",
                                  !.d_id = server_id,
                                  !.d_stack = c.exit_stacks[server_id],
                                  !.d_sess = DictGet(c.sessions, server_id),
                                  !.d_ret = ret]]

\* disconnect(server_id) for an id that is a key of sessions, up to its first
\* await: the exit stack is looked up, the session is popped, and the task
\* waits for session.shutdown().  ret says where the call returns to.
DisconnectPop(c, server_id, ret) ==
    [c EXCEPT !.sessions = DictPop(c.sessions, server_id),
              !.tk = [c.tk EXCEPT !.pc = "shutdown",
                                  !.d_id = server_id,
                                  !.d_stack = c.exit_stacks[server_id],
                                  !.d_sess = DictGet(c.sessions, server_id),
                                  !.d_ret = ret]]

\* Mutant of ConnectOpen: a new connection starts from an empty tool_map.
ConnectOpen_ClearsTools(c) ==
    LET k == c.nattempts + 1
    IN [c EXCEPT !.nattempts = k,
                 !.att_id = [c.att_id EXCEPT ![k] = c.tk.id],
                 !.exit_stacks = [c.exit_stacks EXCEPT ![c.tk.id] = k],
                 !.tool_map = EmptyMap,
                 !.tools = {},
                 !.tk = [c.tk EXCEPT !.pc = "open_transport", !.att = k,
                                     !.d_id = NoId, !.d_stack = None,
                                     !.d_sess = None, !.d_ret = "none"]]

\* exit_stack = AsyncExitStack(); self.exit_stacks[server_id] = exit_stack,
\* and the task waits for the transport context to be entered.
ConnectOpen(c) ==
    LET k == c.nattempts + 1
    IN [c EXCEPT !.nattempts = k,
                 !.att_id = [c.att_id EXCEPT ![k] = c.tk.id],
                 !.exit_stacks = [c.exit_stacks EXCEPT ![c.tk.id] = k],
                 !.tk = [c.tk EXCEPT !.pc = "open_transport", !.att = k,
                                     !.d_id = NoId, !.d_stack = None,
                                     !.d_sess = None, !.d_ret = "none"]]

\* disconnect() without an id: the loop over the sorted snapshot of the keys,
\* up to the next await; after the loop tool_map and tools are emptied.
RECURSIVE DisconnectAllLoop(_)
DisconnectAllLoop(c) ==
    IF c.tk.todo = <<>>
    THEN Return([c EXCEPT !.tool_map = EmptyMap, !.tools = {}], "ok")
    ELSE LET sid == Head(c.tk.todo)
             c1 == [c EXCEPT !.tk = [c.tk EXCEPT !.todo = Tail(c.tk.todo),
                                                 !.done = Append(c.tk.done, sid)]]
         IN IF DictHas(c.sessions, sid)
            THEN DisconnectPop(c1, sid, "all")
            ELSE DisconnectAllLoop(c1)

\* Where control goes when disconnect(server_id) returns to its caller.
AfterDisconnect(c, ret) ==
    LET c0 == [c EXCEPT !.tk = [c.tk EXCEPT !.sh_out = "none", !.ac_out = "none"]]
    IN CASE ret = "top" -> Return(c, "ok")
         [] ret = "connect_pre" -> ConnectOpen(c0)
         [] ret = "connect_fail" -> Return(c0, "raised")
         [] ret = "all" -> DisconnectAllLoop(c)

\* The end of disconnect(server_id): the exit stack entry is popped and the
\* tools of the id are filtered out of tool_map.
DisconnectFinish(c) ==
    LET sid == c.tk.d_id
        tm == RemoveTools(c.tool_map, sid)
        c1 == [c EXCEPT !.exit_stacks = [c.exit_stacks EXCEPT ![sid] = None],
                        !.tool_map = tm,
                        !.tools = Values(tm),
                        !.disconnected =
                            IF c.tk.d_ret \in {"top", "all"} /\ ~ConnectInProgress(sid)
                            THEN c.disconnected \cup {sid}
                            ELSE c.disconnected]
    IN AfterDisconnect(c1, c.tk.d_ret)

\* Mutant of DisconnectCall: without the test `server_id in self.sessions`
\* the bookkeeping of the id is cleaned up for an unknown id as well.
DisconnectCall_NoTest(c, server_id, ret) ==
    IF DictHas(c.sessions, server_id)
    THEN DisconnectPop(c, server_id, ret)
    ELSE DisconnectFinish([c EXCEPT !.tk = [c.tk EXCEPT !.d_id = server_id,
                                                       !.d_ret = ret]])

\* await self.disconnect(server_id) with a non-empty id.
DisconnectCall(c, server_id, ret) ==
    IF DictHas(c.sessions, server_id)
    THEN DisconnectPop(c, server_id, ret)
    ELSE AfterDisconnect(c, ret)

\* MCPClients.disconnect as called by a task, up to its first await.
Disconnect(c, server_id) ==
    LET keys == sorted(DictKeyList(c.sessions))
        c0 == [c EXCEPT !.chain = NoChain, !.tk =
                 [IdleTask EXCEPT !.op = IF server_id = NoId THEN "disconnect_all"
                                         ELSE "disconnect",
                                  !.id = server_id,
                                  !.was_conn = DictHas(c.sessions, server_id),
                                  !.todo = IF server_id = NoId THEN keys ELSE <<>>,
                                  !.known = IF server_id = NoId THEN keys ELSE <<>>]]
    IN IF server_id # NoId
       THEN DisconnectCall(c0, server_id, "top")
       ELSE DisconnectAllLoop(c0)

\* What session.shutdown() did to the session: a shutdown that returned has
\* closed a session that was open; one that raised has not.
ShutdownEffect(c, outcome) ==
    LET s == c.tk.d_sess
        c0 == [c EXCEPT !.tk = [c.tk EXCEPT !.sh_out = outcome]]
    IN IF outcome = "ok" /\ c.sess[s] \in {"uninitialized", "ready"}
       THEN [c0 EXCEPT !.sess = [c.sess EXCEPT ![s] = "shutdown"]]
       ELSE c0

\* Mutant of SessionShutdown: an exception of session.shutdown() skips the
\* closing of the exit stack.
SessionShutdown_SkipsClose(c, outcome) ==
    LET c1 == ShutdownEffect(c, outcome)
    IN IF c.tk.d_stack # None /\ outcome = "ok"
       THEN [c1 EXCEPT !.tk = [c1.tk EXCEPT !.pc = "aclose"]]
       ELSE DisconnectFinish(c1)

\* await session.shutdown() is over: it returned or raised (the exception is
\* logged); next the exit stack, if there is one, is closed.
SessionShutdown(c, outcome) ==
    LET c1 == ShutdownEffect(c, outcome)
    IN IF c.tk.d_stack # None
       THEN [c1 EXCEPT !.tk = [c1.tk EXCEPT !.pc = "aclose"]]
       ELSE DisconnectFinish(c1)

\* The order in which AsyncExitStack.aclose() exits the contexts it holds:
\* the one entered last first.
RECURSIVE ExitOrder(_)
ExitOrder(contexts) ==
    IF contexts = <<>> THEN <<>>
    ELSE <<contexts[Len(contexts)]>>
         \o ExitOrder(SubSeq(contexts, 1, Len(contexts) - 1))

\* Mutant of AcloseEffect: the contexts are exited in the order of entry.
AcloseEffect_Fifo(c, outcome) ==
    LET k == c.tk.d_stack
        items == {c.stack[k][i] : i \in 1..Len(c.stack[k])}
    IN [c EXCEPT
          !.tk = [c.tk EXCEPT !.ac_out = outcome],
          !.stack = [c.stack EXCEPT ![k] = <<>>],
          !.released = [c.released EXCEPT ![k] = @ \o c.stack[k]],
          !.transport = [c.transport EXCEPT ![k] =
              IF "transport" \in items THEN "exited" ELSE @],
          !.sess = [c.sess EXCEPT ![k] =
              IF "session" \in items THEN "exited" ELSE @]]

\* What exit_stack.aclose() did to the stack, whatever its outcome: the
\* stack has been emptied and the exit of every context it held has been
\* run, or given up ("exited"), one after the other in ExitOrder.
AcloseEffect(c, outcome) ==
    LET k == c.tk.d_stack
        items == {c.stack[k][i] : i \in 1..Len(c.stack[k])}
    IN [c EXCEPT
          !.tk = [c.tk EXCEPT !.ac_out = outcome],
          !.stack = [c.stack EXCEPT ![k] = <<>>],
          !.released = [c.released EXCEPT ![k] = @ \o ExitOrder(c.stack[k])],
          !.transport = [c.transport EXCEPT ![k] =
              IF "transport" \in items THEN "exited" ELSE @],
          !.sess = [c.sess EXCEPT ![k] =
              IF "session" \in items THEN "exited" ELSE @]]

\* Mutant of ExitStackAclose: an exception of aclose() leaves disconnect.
ExitStackAclose_Raises(c, outcome) ==
    IF outcome = "raise"
    THEN Return(AcloseEffect(c, outcome), "raised")
    ELSE DisconnectFinish(AcloseEffect(c, outcome))

\* with anyio.move_on_after(5.0): await exit_stack.aclose() is over: it
\* returned, it raised (the exception is logged), or the 5 s scope cancelled
\* it; then the rest of disconnect runs.
ExitStackAclose(c, outcome) ==
    DisconnectFinish(AcloseEffect(c, outcome))

\* ----------------------------------------------------------------- connect
\* The `except Exception` handler of connect_*: the error is logged,
\* disconnect(server_id) is awaited, and the exception is raised again.
ConnectFail(c) ==
    DisconnectCall(c, c.tk.id, "connect_fail")

\* The 30 s scope fired during an await inside it: the await is cancelled,
\* move_on_after swallows the cancellation at the end of the `with` block,
\* and connect_* returns.
ConnectTimeout(c) ==
    Return([c EXCEPT !.tk = [c.tk EXCEPT !.timed_out = TRUE]], "ok")

\* Mutant of Connect: a connected id is not disconnected first.
Connect_NoDisconnect(c, target, server_id) ==
    IF target = NoId
    THEN Return([c EXCEPT !.tk = [IdleTask EXCEPT !.op = "connect"]], "raised")
    ELSE LET key == IF server_id # NoId THEN server_id ELSE target
         IN ConnectOpen([c EXCEPT
                !.disconnected = c.disconnected \ {key},
                !.chain = IF c.chain.id = key THEN c.chain ELSE NoChain,
                !.tk = [IdleTask EXCEPT !.op = "connect", !.id = key,
                                        !.target = target,
                                        !.was_conn = DictHas(c.sessions, key)]])

\* Mutant of Connect: the connection is registered under its target.
Connect_KeyIsTarget(c, target, server_id) ==
    IF target = NoId
    THEN Return([c EXCEPT !.tk = [IdleTask EXCEPT !.op = "connect"]], "raised")
    ELSE LET key == target
             c0 == [c EXCEPT !.disconnected = c.disconnected \ {key},
                             !.chain = IF c.chain.id = key THEN c.chain
                                       ELSE NoChain,
                             !.tk = [IdleTask EXCEPT
                                        !.op = "connect", !.id = key,
                                        !.target = target,
                                        !.was_conn = DictHas(c.sessions, key)]]
         IN IF DictHas(c.sessions, key)
            THEN DisconnectPop(c0, key, "connect_pre")
            ELSE ConnectOpen(c0)

\* Mutant of Connect: the target is tested after the server id got its
\* default, so a call with an empty target and a server id goes on.
Connect_TestsAfterDefault(c, target, server_id) ==
    LET key == IF server_id # NoId THEN server_id ELSE target
        c0 == [c EXCEPT !.disconnected = c.disconnected \ {key},
                        !.chain = IF c.chain.id = key THEN c.chain
                                  ELSE NoChain,
                        !.tk = [IdleTask EXCEPT
                                   !.op = "connect", !.id = key,
                                   !.target = target,
                                   !.was_conn = DictHas(c.sessions, key)]]
    IN IF key = NoId
       THEN Return([c EXCEPT !.tk = [IdleTask EXCEPT !.op = "connect"]], "raised")
       ELSE IF DictHas(c.sessions, key)
       THEN DisconnectPop(c0, key, "connect_pre")
       ELSE ConnectOpen(c0)

\* connect_sse(server_url, server_id) / connect_stdio(command, args,
\* server_id) up to the first await; target is the url or the command.
Connect(c, target, server_id) ==
    IF target = NoId
    THEN Return([c EXCEPT !.tk = [IdleTask EXCEPT !.op = "connect"]], "raised")
    ELSE LET key == IF server_id # NoId THEN server_id ELSE target
             c0 == [c EXCEPT !.disconnected = c.disconnected \ {key},
                             !.chain = IF c.chain.id = key THEN c.chain
                                       ELSE NoChain,
                             !.tk = [IdleTask EXCEPT
                                        !.op = "connect", !.id = key,
                                        !.target = target,
                                        !.was_conn = DictHas(c.sessions, key)]]
         IN IF DictHas(c.sessions, key)
            THEN DisconnectPop(c0, key, "connect_pre")
            ELSE ConnectOpen(c0)

\* await exit_stack.enter_async_context(sse_client(...) / stdio_client(...))
\* is over.
EnterTransport(c, outcome) ==
    LET k == c.tk.att
    IN CASE outcome = "ok" ->
              [c EXCEPT !.transport = [c.transport EXCEPT ![k] = "open"],
                        !.stack = [c.stack EXCEPT ![k] = Append(@, "transport")],
                        !.tk = [c.tk EXCEPT !.pc = "enter_session"]]
         [] outcome = "raise" -> ConnectFail(c)
         [] outcome = "timeout" -> ConnectTimeout(c)

\* Mutant of EnterSession: the tools are listed without initialize().
EnterSession_SkipsInitialize(c, outcome) ==
    LET k == c.tk.att
        c1 == [c EXCEPT !.sess = [c.sess EXCEPT ![k] = "uninitialized"],
                        !.stack = [c.stack EXCEPT ![k] = Append(@, "session")],
                        !.sessions = DictSet(c.sessions, c.tk.id, k)]
    IN CASE outcome = "ok" ->
              [c1 EXCEPT !.tk = [c1.tk EXCEPT !.pc = "list_tools"]]
         [] outcome = "cancel_called" ->
              ConnectFail([c1 EXCEPT !.tk = [c1.tk EXCEPT !.timed_out = TRUE]])
         [] outcome = "raise" -> ConnectFail(c)
         [] outcome = "timeout" -> ConnectTimeout(c)

\* await exit_stack.enter_async_context(ClientSession(...)) is over; on
\* success the session is stored, scope.cancel_called is tested, and
\* _initialize_and_list_tools reads the session back and awaits initialize().
EnterSession(c, outcome) ==
    LET k == c.tk.att
        c1 == [c EXCEPT !.sess = [c.sess EXCEPT ![k] = "uninitialized"],
                        !.stack = [c.stack EXCEPT ![k] = Append(@, "session")],
                        !.sessions = DictSet(c.sessions, c.tk.id, k)]
    IN CASE outcome = "ok" ->
              [c1 EXCEPT !.tk = [c1.tk EXCEPT !.pc = "initialize"]]
         [] outcome = "cancel_called" ->
              ConnectFail([c1 EXCEPT !.tk = [c1.tk EXCEPT !.timed_out = TRUE]])
         [] outcome = "raise" -> ConnectFail(c)
         [] outcome = "timeout" -> ConnectTimeout(c)

\* await session.initialize() is over.
SessionInitialize(c, outcome) ==
    LET k == c.tk.att
    IN CASE outcome = "ok" ->
              [c EXCEPT !.sess = [c.sess EXCEPT ![k] =
                                    IF @ = "uninitialized" THEN "ready" ELSE @],
                        !.tk = [c.tk EXCEPT !.pc = "list_tools"]]
         [] outcome = "raise" -> ConnectFail(c)
         [] outcome = "timeout" -> ConnectTimeout(c)

\* Mutant of SessionListTools: the proxies are bound to the session that
\* was stored first, whatever server it belongs to.
SessionListTools_AliasesSession(c, outcome, remote) ==
    LET k == c.sessions[CHOOSE i \in 1..Len(c.sessions) :
                           /\ c.sessions[i] # Dummy
                           /\ \A j \in 1..(i - 1) : c.sessions[j] = Dummy].v
        tm == RegisterTools(c.tool_map, c.tk.id, k, remote)
    IN CASE outcome = "ok" ->
              Return([c EXCEPT !.tool_map = tm,
                               !.tools = Values(tm),
                               !.chain = [id |-> c.tk.id, found |-> remote]],
                     "ok")
         [] outcome = "raise" -> ConnectFail(c)
         [] outcome = "timeout" -> ConnectTimeout(c)

\* await session.list_tools() is over; on success every tool of the response
\* is registered, tools is rebuilt and connect_* returns.
SessionListTools(c, outcome, remote) ==
    LET k == c.tk.att
        tm == RegisterTools(c.tool_map, c.tk.id, k, remote)
    IN CASE outcome = "ok" ->
              Return([c EXCEPT !.tool_map = tm,
                               !.tools = Values(tm),
                               !.chain = [id |-> c.tk.id, found |-> remote]],
                     "ok")
         [] outcome = "raise" -> ConnectFail(c)
         [] outcome = "timeout" -> ConnectTimeout(c)

\* -------------------------------------------------------------- list_tools
\* The `for session in self.sessions.values()` header of list_tools: the
\* iterator raises RuntimeError when the dict changed size, ends after the
\* last entry, and otherwise yields the next session, whose list_tools() is
\* awaited.
ListToolsNext(c) ==
    LET later == {i \in (c.tk.lt_i + 1)..Len(c.sessions) : c.sessions[i] # Dummy}
        i == CHOOSE x \in later : \A y \in later : x <= y
    IN IF DictLen(c.sessions) # c.tk.lt_len THEN Return(c, "raised")
       ELSE IF later = {} THEN Return(c, "ok")
       ELSE [c EXCEPT !.tk = [c.tk EXCEPT !.pc = "lt_await", !.lt_i = i,
                                          !.lt_q = Append(@, c.sessions[i].v)]]

\* MCPClients.list_tools up to its first await.
ListTools(c) ==
    ListToolsNext([c EXCEPT !.tk = [IdleTask EXCEPT !.op = "list_tools",
                                                    !.lt_len = DictLen(c.sessions)]])

\* await session.list_tools() inside MCPClients.list_tools is over: the
\* response is added to the result, or the exception leaves list_tools.
ListToolsResponse(c, outcome) ==
    IF outcome = "ok" THEN ListToolsNext(c) ELSE Return(c, "raised")

\* ----------------------------------------------------------------- execute
\* MCPClientTool.execute: an error result without a session or when
\* call_tool raises, the joined text of the result's content otherwise.
ToolExecute(tool, answer) ==
    IF tool.session = None
    THEN ToolResult(Unset, "MCP server connection not available.")
    ELSE IF answer.kind = "exception"
    THEN ToolResult(Unset, "Error executing tool: " \o answer.message)
    ELSE LET content_str == JoinTexts(answer.content)
         IN ToolResult(IF content_str # "" THEN content_str
                       ELSE "No output returned.", Unset)

\* The ToolResult is a failed one (its error is set) or a successful one.
Outcome(result) == IF result.error # Unset THEN "error" ELSE "output"

\* MCPClientTool.execute returns result to ToolCollection.execute, which
\* hands it to the caller.
ReturnResult(c, answer, result) ==
    Return([c EXCEPT !.tk = [c.tk EXCEPT !.x_answer = answer,
                                         !.x_result = result]],
           Outcome(result))

\* ToolCollection.execute(name) up to the await of call_tool: the tool is
\* looked up in tool_map; a name that is not registered gives the
\* tool-not-found result, a proxy without a session its error result, and
\* otherwise the proxy issues call_tool on its session and waits.
Execute(c, name) ==
    LET found == name \in DOMAIN c.tool_map
        c0 == [c EXCEPT !.tk = [IdleTask EXCEPT
                  !.op = "execute", !.x_name = name,
                  !.x_during = {i \in ServerIds : ConnectInProgress(i)},
                  !.x_sess = IF found THEN c.tool_map[name].session ELSE None]]
    IN IF ~found THEN Return(c0, "not_found")
       ELSE IF c.tool_map[name].session = None
       THEN ReturnResult(c0, NoAnswer, ToolExecute(c.tool_map[name], NoAnswer))
       ELSE [c0 EXCEPT !.tk = [c0.tk EXCEPT !.pc = "call_tool", !.x_calls = 1]]

\* Mutant of CallTool: an exception of call_tool leaves execute.
CallTool_Propagates(c, answer) ==
    IF answer.kind = "exception"
    THEN Return([c EXCEPT !.tk = [c.tk EXCEPT !.x_answer = answer]], "raised")
    ELSE ReturnResult(c, answer, ToolExecute([session |-> c.tk.x_sess], answer))

\* Mutant of CallTool: a call that raised drops the session of the proxy and
\* the tools of its server.
CallTool_TearsDown(c, answer) ==
    LET sid == c.att_id[c.tk.x_sess]
        tm == RemoveTools(c.tool_map, sid)
        c1 == IF answer.kind = "exception"
              THEN [c EXCEPT !.sessions = DictPop(c.sessions, sid),
                             !.tool_map = tm, !.tools = Values(tm)]
              ELSE c
    IN ReturnResult(c1, answer, ToolExecute([session |-> c.tk.x_sess], answer))

\* Mutant of CallTool: a call_tool that raised is issued once more.
CallTool_Retries(c, answer) ==
    IF answer.kind = "exception" /\ c.tk.x_calls < 2
    THEN [c EXCEPT !.tk = [c.tk EXCEPT !.x_calls = @ + 1]]
    ELSE ReturnResult(c, answer, ToolExecute([session |-> c.tk.x_sess], answer))

\* await self.session.call_tool(...) is over: MCPClientTool.execute returns
\* its ToolResult, which ToolCollection.execute hands to the caller.
CallTool(c, answer) ==
    ReturnResult(c, answer, ToolExecute([session |-> c.tk.x_sess], answer))

\* -------------------------------------------------------------------- Init
\* A manager right after construction: no session, no exit stack, no tool.
Constructed ==
    /\ sessions = <<>>
    /\ exit_stacks = [s \in ServerIds |-> None]
    /\ tool_map = EmptyMap
    /\ tools = {}
    /\ nattempts = 0
    /\ stack = [k \in Attempts |-> <<>>]
    /\ released = [k \in Attempts |-> <<>>]
    /\ transport = [k \in Attempts |-> "none"]
    /\ sess = [k \in Attempts |-> "none"]
    /\ task = [t \in Tasks |-> IdleTask]
    /\ att_id = [k \in Attempts |-> NoId]
    /\ disconnected = {}
    /\ chain = NoChain
    /\ ncalls = 0
    /\ peer_tool_map = EmptyMap
    /\ peer_tools = {}

\* A coroutine frame of the MarketIndexTool that runs nothing.
IdleFrame ==
    [fn |-> "none", at |-> "idle", i |-> 0, init |-> "no",
     tried |-> <<>>, failed |-> {}, names |-> <<>>, found |-> <<>>,
     result |-> "none"]

\* No configuration: the manager is used without a MarketIndexTool.
NoConfig == [enabled |-> FALSE, mcpServers |-> <<>>]

\* The manager after construction, used directly by its callers.
Init ==
    /\ Constructed
    /\ mcp_config = NoConfig
    /\ initialized = FALSE
    /\ frame = [t \in Tasks |-> IdleFrame]
    /\ connects = <<>>

\* ----------------------------------------------------------------- actions
Targets == ServerIds \cup {NoId}

\* Connect calls that have not created their exit stack yet.
Pending == Cardinality({t \in Tasks : task[t].d_ret = "connect_pre"})

\* A task calls connect_sse(server_url, server_id).
connect_sse(t) ==
    /\ task[t].pc = "idle"
    /\ nattempts + Pending < MaxAttempts
    /\ \E server_url \in Targets, server_id \in Targets :
          Apply(t, Connect(Cfg(t), server_url, server_id))

\* A task calls connect_stdio(command, args, server_id).
connect_stdio(t) ==
    /\ task[t].pc = "idle"
    /\ nattempts + Pending < MaxAttempts
    /\ \E command \in Targets, server_id \in Targets :
          Apply(t, Connect(Cfg(t), command, server_id))

\* The transport context is entered, fails to open, or the 30 s scope fires.
enter_transport(t) ==
    /\ task[t].pc = "open_transport"
    /\ \E outcome \in {"ok", "raise", "timeout"} :
          Apply(t, EnterTransport(Cfg(t), outcome))

\* The session context is entered, fails, or the 30 s scope fires (and is
\* seen either by the await or by the test of scope.cancel_called).
enter_session(t) ==
    /\ task[t].pc = "enter_session"
    /\ \E outcome \in {"ok", "cancel_called", "raise", "timeout"} :
          Apply(t, EnterSession(Cfg(t), outcome))

\* session.initialize() returns, raises, or the 30 s scope fires; the
\* handshake succeeds only on a session that has not been torn down.
session_initialize(t) ==
    /\ task[t].pc = "initialize"
    /\ \E outcome \in {"ok", "raise", "timeout"} :
          /\ outcome = "ok" => sess[task[t].att] = "uninitialized"
          /\ Apply(t, SessionInitialize(Cfg(t), outcome))

\* session.list_tools() returns the server's tools, raises, or the 30 s
\* scope fires; the request succeeds only on a ready session.
session_list_tools(t) ==
    /\ task[t].pc = "list_tools"
    /\ \E outcome \in {"ok", "raise", "timeout"}, remote \in ToolLists :
          /\ outcome = "ok" => sess[task[t].att] = "ready"
          /\ outcome # "ok" => remote = {}
          /\ Apply(t, SessionListTools(Cfg(t), outcome, remote))

\* A task calls disconnect(server_id), or disconnect() with server_id = "".
disconnect(t) ==
    /\ task[t].pc = "idle"
    /\ \E server_id \in Targets : Apply(t, Disconnect(Cfg(t), server_id))

\* session.shutdown() returns or raises.
session_shutdown(t) ==
    /\ task[t].pc = "shutdown"
    /\ \E outcome \in {"ok", "raise"} : Apply(t, SessionShutdown(Cfg(t), outcome))

\* exit_stack.aclose() returns, raises, or the 5 s scope fires.
exit_stack_aclose(t) ==
    /\ task[t].pc = "aclose"
    /\ \E outcome \in {"ok", "raise", "timeout"} :
          Apply(t, ExitStackAclose(Cfg(t), outcome))

\* A task calls list_tools().
list_tools(t) ==
    /\ task[t].pc = "idle"
    /\ Apply(t, ListTools(Cfg(t)))

\* One server answers the list_tools() of the manager, or the call raises;
\* the request succeeds only when the session it was issued on is ready.
list_tools_response(t) ==
    /\ task[t].pc = "lt_await"
    /\ \E outcome \in {"ok", "raise"} :
          /\ outcome = "ok" => sess[task[t].lt_q[Len(task[t].lt_q)]] = "ready"
          /\ Apply(t, ListToolsResponse(Cfg(t), outcome))

\* Every name a connected server's tool can have.
ToolNames == {ToolName(s, r) : s \in ServerIds, r \in RemoteNames}

\* A task calls execute(name).
execute(t) ==
    /\ task[t].pc = "idle"
    /\ \E name \in ToolNames : Apply(t, Execute(Cfg(t), name))

\* The server answers call_tool, or the call raises; only a ready session
\* gets a result from the server.
call_tool(t) ==
    /\ task[t].pc = "call_tool"
    /\ \E answer \in Answers :
          /\ answer.kind = "result" => sess[task[t].x_sess] = "ready"
          /\ Apply(t, CallTool(Cfg(t), answer))

\* The step of task t names a server id of ids (or none), a tool name of a
\* server of ids, and discovers a tool list of lists.
Within(t, ids, lists) ==
    /\ task'[t].id \in ids \cup {NoId}
    /\ task'[t].target \in ids \cup {NoId}
    /\ task'[t].x_name \in {""} \cup {ToolName(i, r) : i \in ids, r \in UNION lists}
    /\ chain'.found \in lists \cup {{}}

\* Such a step in which a connect_* is given no server_id other than its
\* target, and a call_tool, if it is answered, gets a plain answer.
Scope(t, ids, lists) ==
    /\ Within(t, ids, lists)
    /\ task'[t].target \in {NoId, task'[t].id}
    /\ task'[t].x_answer \in PlainAnswers \cup {NoAnswer}

\* The server id that the concurrent callers connect and disconnect.
RaceId == "A"

\* The tasks that connect and disconnect it.
Racers == {"t1", "t2"}

\* One more call of a concurrent caller, on the contended server id.
Racing(t) ==
    /\ ncalls < MaxCalls
    /\ ncalls' = ncalls + 1
    /\ task'[t].id = RaceId

\* A step of a concurrent caller that makes no new call.
Resumed(t) ==
    /\ UNCHANGED ncalls
    /\ Scope(t, {RaceId}, PlainLists)

\* Tasks connect and disconnect one server id concurrently and interleave at
\* every await.
Next ==
    \E t \in Racers :
        \/ connect_sse(t) /\ Racing(t)
        \/ connect_stdio(t) /\ Racing(t)
        \/ disconnect(t) /\ Racing(t)
        \/ enter_transport(t) /\ Resumed(t)
        \/ enter_session(t) /\ Resumed(t)
        \/ session_initialize(t) /\ Resumed(t)
        \/ session_list_tools(t) /\ Resumed(t)
        \/ session_shutdown(t) /\ Resumed(t)
        \/ exit_stack_aclose(t) /\ Resumed(t)

Spec == Init /\ [][Next]_vars

\* The step of task t met no failure and no timeout of connect_*.
Clean(t) ==
    /\ ~task'[t].timed_out
    /\ task'[t].res # "raised"
    /\ task'[t].d_ret # "connect_fail"

\* The concurrent runs in which every step of every connect_* succeeds.
RaceNext ==
    \E t \in Racers :
        \/ connect_sse(t) /\ Racing(t) /\ Clean(t)
        \/ connect_stdio(t) /\ Racing(t) /\ Clean(t)
        \/ disconnect(t) /\ Racing(t)
        \/ enter_transport(t) /\ Clean(t) /\ Resumed(t)
        \/ enter_session(t) /\ Clean(t) /\ Resumed(t)
        \/ session_initialize(t) /\ Clean(t) /\ Resumed(t)
        \/ session_list_tools(t) /\ Clean(t) /\ Resumed(t)
        \/ session_shutdown(t) /\ Resumed(t)
        \/ exit_stack_aclose(t) /\ Resumed(t)

RaceSpec == Init /\ [][RaceNext]_vars

\* The one caller of the sequential runs.
Caller == "t1"

\* A step of the one caller, on the servers and tool lists of the plain runs.
Plain ==
    /\ UNCHANGED ncalls
    /\ Scope(Caller, PlainIds, PlainLists)

\* One caller: every call runs to its end before the next one starts.
SeqNext ==
    \/ connect_sse(Caller) /\ Plain
    \/ connect_stdio(Caller) /\ Plain
    \/ disconnect(Caller) /\ Plain
    \/ enter_transport(Caller) /\ Plain
    \/ enter_session(Caller) /\ Plain
    \/ session_initialize(Caller) /\ Plain
    \/ session_list_tools(Caller) /\ Plain
    \/ session_shutdown(Caller) /\ Plain
    \/ exit_stack_aclose(Caller) /\ Plain
    \/ list_tools(Caller) /\ Plain
    \/ list_tools_response(Caller) /\ Plain
    \/ execute(Caller) /\ Plain
    \/ call_tool(Caller) /\ Plain

SeqSpec == Init /\ [][SeqNext]_vars

\* ------------------------------------------------------------ vocabulary
\* The session of attempt k is live: entered, not shut down, not exited.
Live(k) == sess[k] \in {"uninitialized", "ready"}

\* Attempt k still holds a resource it acquired.
Held(k) == transport[k] = "open" \/ sess[k] \in {"uninitialized", "ready", "shutdown"}

\* The names registered in tool_map for server id.
ToolsOf(id) == {n \in DOMAIN tool_map : tool_map[n].server_id = id}

\* Nothing of server id is left in sessions, exit_stacks or tool_map.
NoEntry(id) ==
    /\ ~DictHas(sessions, id)
    /\ exit_stacks[id] = None
    /\ ToolsOf(id) = {}

\* Every tool registered for id is bound to the session stored for id.
ToolsBound(id) ==
    \A n \in ToolsOf(id) : tool_map[n].session = DictGet(sessions, id)

\* Server id is connected in full.
FullyConnected(id) ==
    /\ DictHas(sessions, id)
    /\ Live(DictGet(sessions, id))
    /\ exit_stacks[id] = DictGet(sessions, id)
    /\ ToolsBound(id)

\* Exactly one session made for id is live, and it is the one in sessions.
OneLiveSession(id) ==
    /\ DictHas(sessions, id)
    /\ {k \in Attempts : att_id[k] = id /\ Live(k)} = {DictGet(sessions, id)}

\* The tools registered for id are the tools `found` of one discovery.
ToolsAre(id, found) ==
    /\ ToolsOf(id) = {ToolName(id, r) : r \in found}
    /\ ToolsBound(id)

\* No call is in progress.
AllIdle == \A t \in Tasks : task[t].pc = "idle"

\* Task t has returned from a connect_* that ran all of its setup steps.
ConnectSucceeded(t) ==
    /\ task[t].pc = "idle"
    /\ task[t].op = "connect"
    /\ task[t].res = "ok"
    /\ ~task[t].timed_out

\* ------------------------------------------------------------------ claims
\* C1: a connect_* for an id that is not connected, which fails at a setup
\* step and raises, leaves no entry for the id in sessions, exit_stacks and
\* tool_map, and has released every resource the attempt acquired.
C1_FailedConnectLeavesNoResidue ==
    \A t \in Tasks :
        ( /\ task[t].pc = "idle"
          /\ task[t].op = "connect"
          /\ task[t].res = "raised"
          /\ task[t].att # None
          /\ ~task[t].was_conn )
        => /\ NoEntry(task[t].id)
           /\ ~Held(task[t].att)

\* C2: a connect_* on which the 30 s ceiling fired ends by raising, and
\* afterwards the id has no entry in sessions, exit_stacks or tool_map.
C2_TimedOutConnectRaises ==
    \A t \in Tasks :
        ( /\ task[t].pc = "idle"
          /\ task[t].op = "connect"
          /\ task[t].timed_out )
        => /\ task[t].res = "raised"
           /\ NoEntry(task[t].id)

\* C3: whenever a disconnect(id) is awaiting session.shutdown() or
\* exit_stack.aclose(), tool_map holds no tool of id.
C3_ToolsRemovedBeforeShutdown ==
    \A t \in Tasks :
        task[t].pc \in {"shutdown", "aclose"} => ToolsOf(task[t].d_id) = {}

\* C4: in every state, await points included, every tool of tool_map has a
\* server_id that is a key of sessions, and the session stored there is live.
C4_EveryToolHasLiveSession ==
    \A n \in DOMAIN tool_map :
        /\ DictHas(sessions, tool_map[n].server_id)
        /\ Live(DictGet(sessions, tool_map[n].server_id))

\* C5 as claimed: after a run of connect_* calls that all name one server
\* id, issued one after another, of which at least one succeeded (chain.id
\* is that id), the manager holds exactly one live session for the id and
\* the tools registered for it are those of the last successful connect.
C5_AnySuccessLeavesOneSession ==
    (AllIdle /\ chain.id # NoId)
    => /\ OneLiveSession(chain.id)
       /\ ToolsAre(chain.id, chain.found)

\* C5 as amended: when the last connect_* call of such a run succeeded, the
\* manager holds exactly one live session for the id and the tools
\* registered for it are exactly the tools that call discovered.
C5_LastSuccessLeavesOneSession ==
    \A t \in Tasks :
        (AllIdle /\ ConnectSucceeded(t) /\ chain.id = task[t].id)
        => /\ OneLiveSession(chain.id)
           /\ ToolsAre(chain.id, chain.found)

\* C5 witness: a connect_* that found {f} has just succeeded on an id that
\* an earlier connect_* had connected, and whose earlier session is exited.
C5_Witness ==
    \E t \in Tasks :
        /\ AllIdle /\ ConnectSucceeded(t) /\ chain.id = task[t].id
        /\ task[t].was_conn
        /\ chain.found = {"f"}
        /\ \E k \in Attempts : /\ k # task[t].att
                               /\ att_id[k] = task[t].id
                               /\ sess[k] = "exited"

\* C6, for two calls that both succeed: after two connect_* calls for one
\* id have both returned, at most one session made for the id is not
\* closed, every exit stack of the id that still holds an open context is
\* the one in exit_stacks, and every tool of the id is bound to the session
\* in sessions.
C6_ConcurrentConnectsSerialize ==
    ( /\ ncalls = 2
      /\ \A t \in Racers : ConnectSucceeded(t) /\ task[t].id = RaceId )
    => /\ Cardinality({k \in Attempts : att_id[k] = RaceId /\ Held(k)}) <= 1
       /\ \A k \in Attempts :
             (att_id[k] = RaceId /\ stack[k] # <<>>) => exit_stacks[RaceId] = k
       /\ ToolsBound(RaceId)

\* C7, for a connect that succeeds: after a connect_*(id) and a
\* disconnect(id) of two tasks have both returned, the id is either fully
\* connected or absent from sessions, exit_stacks and tool_map.
C7_ConnectDisconnectRace ==
    \A t, u \in Tasks :
        ( /\ ConnectSucceeded(t) /\ task[t].id = RaceId
          /\ task[u].pc = "idle" /\ task[u].op = "disconnect"
          /\ task[u].id = RaceId )
        => FullyConnected(RaceId) \/ NoEntry(RaceId)

\* C8: after disconnect(id) returned for a connected id and until the next
\* connect_* for that id, tool_map holds no tool of the id, the id is no key
\* of sessions, execute on a name mcp_<id>_<remote> gives tool-not-found,
\* and list_tools() queries no session made for the id.
C8_NoToolsAfterDisconnect ==
    \A id \in disconnected :
        /\ ToolsOf(id) = {}
        /\ ~DictHas(sessions, id)
        /\ \A t \in Tasks :
              /\ ( /\ task[t].op = "execute"
                   /\ task[t].x_name \in {ToolName(id, r) : r \in RemoteNames} )
                 => task[t].res = "not_found"
              /\ task[t].op = "list_tools"
                 => \A i \in 1..Len(task[t].lt_q) : att_id[task[t].lt_q[i]] # id

\* C8 witness: A was disconnected, B still has its tools, and execute on a
\* tool name of A has just returned tool-not-found.
C8_Witness ==
    /\ "A" \in disconnected
    /\ ToolsOf("B") # {}
    /\ task[Caller].op = "execute"
    /\ task[Caller].x_name = ToolName("A", "f")
    /\ task[Caller].res = "not_found"

\* C9: a disconnect(id) call with an id that is no key of sessions returns
\* at once without raising and leaves sessions, exit_stacks, tool_map and
\* tools unchanged.
C9_DisconnectUnknownIsNoOp ==
    [][ \A t \in Tasks :
          ( /\ task[t].pc = "idle"
            /\ task'[t] # task[t]
            /\ task'[t].op = "disconnect"
            /\ ~DictHas(sessions, task'[t].id) )
          => /\ task'[t].pc = "idle"
             /\ task'[t].res = "ok"
             /\ UNCHANGED <<sessions, exit_stacks, tool_map, tools>> ]_vars

\* C9 witness: disconnect of an id that was not connected has returned
\* while another server is connected with its tools and a stale exit stack
\* entry of the id exists.
C9_Witness ==
    /\ task[Caller].pc = "idle"
    /\ task[Caller].op = "disconnect"
    /\ ~task[Caller].was_conn
    /\ task[Caller].res = "ok"
    /\ tool_map # EmptyMap
    /\ exit_stacks[task[Caller].id] # None

\* A sequence of server ids is in strictly ascending order.
Ascending(s) == \A i, j \in 1..Len(s) : i < j => StrLess(s[i], s[j])

\* C10: disconnect() tears the servers down one at a time in ascending
\* order of server id, and when it returns every server that was known at
\* the call has been torn down.
C10_DisconnectAllSorted ==
    \A t \in Tasks :
        task[t].op = "disconnect_all"
        => /\ Ascending(task[t].done)
           /\ task[t].pc = "idle"
              => /\ {task[t].done[i] : i \in 1..Len(task[t].done)}
                      = {task[t].known[i] : i \in 1..Len(task[t].known)}
                 /\ DictKeys(sessions) = {}
                 /\ \A k \in Attempts : ~Live(k)

\* C10 witness: disconnect() has returned after tearing down two servers
\* that had been connected in descending order of id.
C10_Witness ==
    /\ task[Caller].op = "disconnect_all"
    /\ task[Caller].pc = "idle"
    /\ task[Caller].done = <<"A", "B">>
    /\ att_id[1] = "B"
    /\ att_id[2] = "A"

\* sessions, exit_stacks and tool_map are all empty.
AllEmpty ==
    /\ DictKeys(sessions) = {}
    /\ \A id \in ServerIds : exit_stacks[id] = None
    /\ tool_map = EmptyMap

\* C11: when disconnect() is called again right after a disconnect() has
\* returned, sessions, exit_stacks and tool_map are all empty at the second
\* call, and the second call returns at once, shuts down and releases
\* nothing, and leaves the state unchanged.
C11_DisconnectAllTwice ==
    [][ \A t \in Tasks :
          ( /\ task[t].pc = "idle"
            /\ task[t].op = "disconnect_all"
            /\ task'[t] # task[t]
            /\ task'[t].op = "disconnect_all" )
          => /\ AllEmpty
             /\ task'[t].pc = "idle"
             /\ UNCHANGED <<sessions, exit_stacks, tool_map, tools,
                            stack, transport, sess>> ]_vars

\* C12: a disconnect(id) of a connected id returns normally whatever
\* session.shutdown() and exit_stack.aclose() did (returned, raised, timed
\* out), and afterwards id is absent from sessions, exit_stacks and tool_map.
C12_DisconnectNeverRaises ==
    \A t \in Tasks :
        ( /\ task[t].pc = "idle"
          /\ task[t].op = "disconnect"
          /\ task[t].was_conn )
        => /\ task[t].res = "ok"
           /\ NoEntry(task[t].id)

\* C12 witness: disconnect(A) has returned normally after both
\* session.shutdown() and exit_stack.aclose() raised, A had tools, and
\* another server is still connected with its tools.
C12_Witness ==
    /\ task[Caller].pc = "idle"
    /\ task[Caller].op = "disconnect"
    /\ task[Caller].id = "A"
    /\ task[Caller].was_conn
    /\ task[Caller].sh_out = "raise"
    /\ task[Caller].ac_out = "raise"
    /\ task[Caller].res = "ok"
    /\ ToolsOf("B") # {}

\* C13: in a disconnect, when session.shutdown() raises the exit stack is
\* still closed next, and when exit_stack.aclose() raises the sessions and
\* exit_stacks entries and the tools of the id are still removed.
C13_CleanupStepsAllRun ==
    [][ \A t \in Tasks : \A id \in ServerIds :
          ( /\ task'[t] # task[t]
            /\ task[t].d_id = id
            /\ task[t].d_ret \in {"top", "all"} )
          => /\ (task[t].pc = "shutdown" /\ task'[t].sh_out = "raise")
                => task'[t].pc = "aclose"
             /\ (task[t].pc = "aclose" /\ task'[t].ac_out = "raise")
                => NoEntry(id)' ]_vars

\* C13 witness: a disconnect(A) is closing the exit stack after
\* session.shutdown() raised, while the tools of A are still registered.
C13_Witness ==
    /\ task[Caller].pc = "aclose"
    /\ task[Caller].op = "disconnect"
    /\ task[Caller].d_id = "A"
    /\ task[Caller].sh_out = "raise"
    /\ ToolsOf("A") # {}
    /\ stack[task[Caller].d_stack] = <<"transport", "session">>

\* ------------------------------------------------------------- termination
\* The server id and the tool lists of the runs that are checked for
\* termination.
LiveIds == {"A"}
LiveLists == {{}, {"f"}}

\* A step of the one caller in those runs.
Single ==
    /\ UNCHANGED ncalls
    /\ Scope(Caller, LiveIds, LiveLists)

\* One caller connects and disconnects one server.
LiveNext ==
    \/ connect_sse(Caller) /\ Single
    \/ connect_stdio(Caller) /\ Single
    \/ disconnect(Caller) /\ Single
    \/ enter_transport(Caller) /\ Single
    \/ enter_session(Caller) /\ Single
    \/ session_initialize(Caller) /\ Single
    \/ session_list_tools(Caller) /\ Single
    \/ session_shutdown(Caller) /\ Single
    \/ exit_stack_aclose(Caller) /\ Single

\* An await that is inside an anyio.move_on_after scope ends: the awaited
\* call returns or raises, or the deadline cancels it.  These are the four
\* awaits of connect_* (30 s) and exit_stack.aclose() in disconnect (5 s).
\* await session.shutdown() is inside no scope: nothing but the remote side
\* ends it, so no fairness is assumed for it.
LiveSpec ==
    /\ Init
    /\ [][LiveNext]_vars
    /\ WF_vars(enter_transport(Caller) /\ Single)
    /\ WF_vars(enter_session(Caller) /\ Single)
    /\ WF_vars(session_initialize(Caller) /\ Single)
    /\ WF_vars(session_list_tools(Caller) /\ Single)
    /\ WF_vars(exit_stack_aclose(Caller) /\ Single)

\* C14: a disconnect(id) that has started eventually returns to its caller,
\* with id removed from sessions, exit_stacks and tool_map, even when the
\* remote side never answers.
C14_DisconnectTerminates ==
    (task[Caller].op = "disconnect" /\ task[Caller].pc # "idle")
    ~> ( /\ task[Caller].op = "disconnect"
         /\ task[Caller].pc = "idle"
         /\ NoEntry(task[Caller].id) )

\* ----------------------------------------------------- connect while in use
\* The servers that are connected while tools are being executed, and the
\* tool lists they report.
UseIds == {"A", "B", "C"}
UseLists == {{"f"}}

\* The tasks that execute tools, and the server each of them uses.
Users == {"t2", "t3"}
ServerOf(u) == IF u = "t2" THEN "A" ELSE "B"

\* The tool that the executing tasks call on their server.
UsedTools == {{"f"}}

\* A step of task t that names a server of ids and a tool list of lists.
Using(t, ids, lists) ==
    /\ UNCHANGED ncalls
    /\ Scope(t, ids, lists)

\* The server during whose connect_* the other tasks call execute.
ThirdId == "C"

\* The call of task u is made while a connect_* for ThirdId, and for no other
\* server, is in progress.
DuringConnect(u) == task'[u].x_during = {ThirdId}

\* One task connects servers, one after the other, while two other tasks
\* execute tools, each on its own server, during the connect of a third
\* server; the tasks interleave at every await.
UseNext ==
    \/ connect_sse(Caller) /\ Using(Caller, UseIds, UseLists)
    \/ connect_stdio(Caller) /\ Using(Caller, UseIds, UseLists)
    \/ enter_transport(Caller) /\ Using(Caller, UseIds, UseLists)
    \/ enter_session(Caller) /\ Using(Caller, UseIds, UseLists)
    \/ session_initialize(Caller) /\ Using(Caller, UseIds, UseLists)
    \/ session_list_tools(Caller) /\ Using(Caller, UseIds, UseLists)
    \/ session_shutdown(Caller) /\ Using(Caller, UseIds, UseLists)
    \/ exit_stack_aclose(Caller) /\ Using(Caller, UseIds, UseLists)
    \/ \E u \in Users : execute(u) /\ Using(u, {ServerOf(u)}, UsedTools)
                                   /\ DuringConnect(u)
    \/ \E u \in Users : call_tool(u) /\ Using(u, {ServerOf(u)}, UsedTools)

UseSpec == Init /\ [][UseNext]_vars

\* C15: while an id whose last connect registered a non-empty tool set is
\* being connected again, and once that connect has succeeded, the tools of
\* the id in tool_map are a complete set: the previous one until the swap,
\* the newly discovered one after it (chain.found is the former until the
\* new discovery is registered and the latter from then on).
C15_ReconnectSwapsToolsAtomically ==
    \A t \in Tasks :
        ( /\ task[t].op = "connect"
          /\ task[t].was_conn
          /\ chain.id = task[t].id
          /\ chain.found # {}
          /\ task[t].pc # "idle" \/ ConnectSucceeded(t) )
        => ToolsOf(task[t].id) = {ToolName(task[t].id, r) : r \in chain.found}

\* The tool_map entries of server id.
EntriesOf(id) == [n \in ToolsOf(id) |-> tool_map[n]]

\* The state of the session stored for server id ("none" without one).
SessionStateOf(id) ==
    IF DictHas(sessions, id) THEN sess[DictGet(sessions, id)] ELSE "none"

\* Server id is connected in full, its session is ready and it has tools.
InService(id) ==
    /\ FullyConnected(id)
    /\ SessionStateOf(id) = "ready"
    /\ ToolsOf(id) # {}

\* C16: (a) every step of a connect_* call for a server c, from the call to
\* its return, raise or timeout, leaves the sessions and exit_stacks
\* entries, the tool_map entries and the session of every other server
\* unchanged; (b) an execute called while such a connect is in progress, on
\* a tool of another server that is in service, issues its call_tool on that
\* server's own session; (c) a call_tool issued on the session of a server in
\* service and answered while a connect for another server is in progress
\* ends execute with the output, or with an error result only if the call
\* itself raised, never with tool-not-found.
C16_ConnectLeavesOtherServersInUse ==
    [][ \A t \in Tasks : \A s \in ServerIds :
          /\ ( /\ task'[t] # task[t]
               /\ task'[t].op = "connect"
               /\ task'[t].id # s )
             => /\ DictGet(sessions', s) = DictGet(sessions, s)
                /\ exit_stacks'[s] = exit_stacks[s]
                /\ EntriesOf(s)' = EntriesOf(s)
                /\ SessionStateOf(s)' = SessionStateOf(s)
          /\ ( /\ task'[t] # task[t]
               /\ task[t].pc = "idle"
               /\ task'[t].op = "execute"
               /\ task'[t].x_name \in ToolsOf(s)
               /\ InService(s)
               /\ \E c \in ServerIds \ {s} : ConnectInProgress(c) )
             => /\ task'[t].pc = "call_tool"
                /\ task'[t].x_sess = DictGet(sessions, s)
                /\ task'[t].x_calls = 1
          /\ ( /\ task[t].pc = "call_tool"
               /\ task'[t].pc = "idle"
               /\ task[t].x_name \in ToolsOf(s)
               /\ InService(s)
               /\ task[t].x_sess = DictGet(sessions, s)
               /\ \E c \in ServerIds \ {s} : ConnectInProgress(c) )
             => /\ task'[t].res \in {"output", "error"}
                /\ InService(s)' ]_vars

\* C16 witness: while connect_* for C is between its awaits, execute on a
\* tool of A and execute on a tool of B, both called during that connect,
\* have returned their output from the sessions of A and of B.
C16_Witness ==
    /\ task[Caller].op = "connect"
    /\ task[Caller].id = "C"
    /\ task[Caller].pc = "initialize"
    /\ \A u \in Users :
          /\ task[u].op = "execute"
          /\ task[u].pc = "idle"
          /\ task[u].x_during = {"C"}
          /\ task[u].x_name = ToolName(ServerOf(u), "f")
          /\ task[u].res = "output"
          /\ task[u].x_sess = DictGet(sessions, ServerOf(u))
    /\ InService("A")
    /\ InService("B")

\* The sessions stored in sessions.
StoredSessions == {DictGet(sessions, id) : id \in DictKeys(sessions)}

\* C17: a list_tools() of the manager over two or more live (ready)
\* sessions returns even when the listing call of one of them raised, and
\* has then queried every session stored in sessions.
C17_ListToolsSurvivesOneFailure ==
    \A t \in Tasks :
        ( /\ task[t].op = "list_tools"
          /\ task[t].pc = "idle"
          /\ Cardinality(StoredSessions) >= 2
          /\ \A k \in StoredSessions : sess[k] = "ready" )
        => /\ task[t].res = "ok"
           /\ {task[t].lt_q[i] : i \in 1..Len(task[t].lt_q)} = StoredSessions

\* --------------------------------------------------------------- namespacing
\* Server ids and remote tool names that contain the character '_'.
NameIds == {"A", "A_b"}
NameLists == {{"f"}, {"b_f"}}

\* A step of the one caller on those servers.
Named ==
    /\ UNCHANGED ncalls
    /\ Scope(Caller, NameIds, NameLists)

\* One caller connects and disconnects those servers.
NameNext ==
    \/ connect_sse(Caller) /\ Named
    \/ connect_stdio(Caller) /\ Named
    \/ disconnect(Caller) /\ Named
    \/ enter_transport(Caller) /\ Named
    \/ enter_session(Caller) /\ Named
    \/ session_initialize(Caller) /\ Named
    \/ session_list_tools(Caller) /\ Named
    \/ session_shutdown(Caller) /\ Named
    \/ exit_stack_aclose(Caller) /\ Named

NameSpec == Init /\ [][NameNext]_vars

\* C18: the local names mcp_<serverId>_<remoteName> of the tools of two
\* servers with distinct ids are distinct, so no step replaces a tool_map
\* entry of one server by a tool of another server: an entry that is in
\* tool_map before and after a step belongs to the same server.
C18_NamespacingKeepsServersApart ==
    [][ \A n \in (DOMAIN tool_map) \cap (DOMAIN tool_map') :
          tool_map'[n].server_id = tool_map[n].server_id ]_vars

\* C19: after a successful connect_*(id) that discovered the tools `found`,
\* tool_map holds for each of them exactly one entry, keyed
\* "mcp_" + id + "_" + remoteName, whose proxy carries that key as its name,
\* server_id = id, original_name = remoteName, the descriptor's description
\* and input schema, and the session stored in sessions[id]; and tool_map
\* holds no other entry with server_id = id.
C19_ToolsRegisteredAsDiscovered ==
    \A t \in Tasks :
        (ConnectSucceeded(t) /\ chain.id = task[t].id)
        => LET id == task[t].id
           IN /\ \A r \in chain.found :
                    /\ ToolName(id, r) \in DOMAIN tool_map
                    /\ tool_map[ToolName(id, r)] =
                          [name |-> "mcp_" \o id \o "_" \o r,
                           description |-> Descriptor(r).description,
                           parameters |-> Descriptor(r).inputSchema,
                           session |-> DictGet(sessions, id),
                           server_id |-> id,
                           original_name |-> r]
              /\ ToolsOf(id) = {ToolName(id, r) : r \in chain.found}
              /\ Cardinality(ToolsOf(id)) = Cardinality(chain.found)
              /\ DictHas(sessions, id)

\* C19 witness: connect_*(B) has just succeeded with the tools f and g, while
\* A is connected with a tool of its own.
C19_Witness ==
    /\ ConnectSucceeded(Caller)
    /\ task[Caller].id = "B"
    /\ chain = [id |-> "B", found |-> {"f", "g"}]
    /\ ToolsOf("A") # {}
    /\ Cardinality(DOMAIN tool_map) >= 3

CallIds == {"A"}
CallLists == {{"f"}}

\* A step of the one caller in those runs.
Calling ==
    /\ UNCHANGED ncalls
    /\ Within(Caller, CallIds, CallLists)

\* One caller connects a server, executes its tool and disconnects it.
CallNext ==
    \/ connect_sse(Caller) /\ Calling
    \/ connect_stdio(Caller) /\ Calling
    \/ disconnect(Caller) /\ Calling
    \/ enter_transport(Caller) /\ Calling
    \/ enter_session(Caller) /\ Calling
    \/ session_initialize(Caller) /\ Calling
    \/ session_list_tools(Caller) /\ Calling
    \/ session_shutdown(Caller) /\ Calling
    \/ exit_stack_aclose(Caller) /\ Calling
    \/ execute(Caller) /\ Calling
    \/ call_tool(Caller) /\ Calling

CallSpec == Init /\ [][CallNext]_vars

\* Task t has returned from an execute whose call_tool was answered.
Executed(t) ==
    /\ task[t].op = "execute"
    /\ task[t].pc = "idle"
    /\ task[t].x_answer # NoAnswer

\* A failed ToolResult: error is set and output is not.
Failed(result) == result.error # Unset /\ result.output = Unset

\* C21: whatever exception session.call_tool raises (channel broken, session
\* closed, protocol error), MCPClientTool.execute does not raise and returns
\* a ToolResult whose error is set and whose output is not set.
C21_CallErrorsBecomeFailedResults ==
    \A t \in Tasks :
        (Executed(t) /\ task[t].x_answer.kind = "exception")
        => /\ task[t].res = "error"
           /\ Failed(task[t].x_result)
           /\ task[t].x_result.error =
                 "Error executing tool: " \o task[t].x_answer.message

\* C21 witness: execute has returned a failed result after call_tool raised a
\* protocol error on a ready session.
C21_Witness ==
    /\ Executed(Caller)
    /\ task[Caller].x_answer = Raised("protocol error")
    /\ sess[task[Caller].x_sess] = "ready"
    /\ task[Caller].x_result.error = "Error executing tool: protocol error"

\* C22: when the server answers call_tool with a result flagged as an error,
\* execute returns a failed ToolResult (error set, no output), never a
\* successful one that carries the error text as its output.
C22_RemoteErrorsBecomeFailedResults ==
    \A t \in Tasks :
        ( /\ Executed(t)
          /\ task[t].x_answer.kind = "result"
          /\ task[t].x_answer.isError )
        => /\ task[t].res = "error"
           /\ Failed(task[t].x_result)

\* C23: a step that ends MCPClientTool.execute with an error result leaves
\* sessions, exit_stacks, tool_map and tools unchanged, and the session of
\* the proxy is still the one registered for its server.
C23_FailedCallTearsNothingDown ==
    [][ \A t \in Tasks :
          ( /\ task'[t] # task[t]
            /\ task'[t].op = "execute"
            /\ task'[t].pc = "idle"
            /\ task'[t].res = "error" )
          => /\ UNCHANGED <<sessions, exit_stacks, tool_map, tools>>
             /\ UNCHANGED <<stack, transport, sess>>
             /\ task[t].pc = "call_tool"
                => DictGet(sessions', att_id[task[t].x_sess]) = task[t].x_sess
          ]_vars

\* C23 witness: execute has returned an error result after the channel
\* broke, and the server is still registered with its session, its exit
\* stack and its tool.
C23_Witness ==
    /\ Executed(Caller)
    /\ task[Caller].res = "error"
    /\ task[Caller].x_answer = Raised("channel broken")
    /\ FullyConnected("A")
    /\ ToolsOf("A") = {ToolName("A", "f")}
    /\ stack[DictGet(sessions, "A")] = <<"transport", "session">>

\* ------------------------------------------------------------ release order
\* Context x occurs before context y in the sequence s.
Before(s, x, y) ==
    \E i, j \in 1..Len(s) : i < j /\ s[i] = x /\ s[j] = y

\* C24: every connect_* acquires the transport first and the session
\* second, and whenever the exit stack of an attempt has been closed, by a
\* disconnect or by the rollback of a failed connect_*, the session context
\* was exited before the transport context: the exits are the acquisitions
\* in reverse.
C24_ReleaseInReverseOrder ==
    \A k \in Attempts :
        /\ stack[k] \in {<<>>, <<"transport">>, <<"transport", "session">>}
        /\ released[k] \in {<<>>, <<"transport">>, <<"session", "transport">>}
        /\ ~Before(released[k], "transport", "session")
        /\ transport[k] = "exited" => sess[k] \in {"none", "exited"}

\* C24 witness: connect_*(A) has raised and its rollback has exited the
\* session and then the transport of the attempt, after an earlier attempt
\* for A, which was connected, had been released in the same order, both
\* sessions having been entered after their transports.
C24_Witness ==
    /\ task[Caller].op = "connect"
    /\ task[Caller].pc = "idle"
    /\ task[Caller].res = "raised"
    /\ task[Caller].id = "A"
    /\ released[task[Caller].att] = <<"session", "transport">>
    /\ \E j \in Attempts :
          /\ j < task[Caller].att
          /\ att_id[j] = "A"
          /\ released[j] = <<"session", "transport">>
          /\ ToolsOf("B") # {}

\* ------------------------------------------------------------ connection keys
\* The targets, the server ids and the tool list of the runs in which
\* connect_* is called with every combination of target and server_id.
KeyIds == {"A", "B"}
KeyLists == {{"f"}}

\* A step of the one caller in those runs.
Keyed ==
    /\ UNCHANGED ncalls
    /\ Within(Caller, KeyIds, KeyLists)

\* One caller connects and reconnects servers, naming them by target alone
\* or by a server_id that differs from the target.
KeyNext ==
    \/ connect_sse(Caller) /\ Keyed
    \/ connect_stdio(Caller) /\ Keyed
    \/ enter_transport(Caller) /\ Keyed
    \/ enter_session(Caller) /\ Keyed
    \/ session_initialize(Caller) /\ Keyed
    \/ session_list_tools(Caller) /\ Keyed
    \/ session_shutdown(Caller) /\ Keyed
    \/ exit_stack_aclose(Caller) /\ Keyed

KeySpec == Init /\ [][KeyNext]_vars

\* The keys of sessions, the keys of exit_stacks and the server ids of the
\* tools that are new or changed in the next state.
Touched ==
    {s \in ServerIds :
        \/ DictGet(sessions', s) \notin {None, DictGet(sessions, s)}
        \/ exit_stacks'[s] \notin {None, exit_stacks[s]}}
    \cup {tool_map'[n].server_id :
            n \in {m \in DOMAIN tool_map' :
                     m \notin DOMAIN tool_map \/ tool_map'[m] # tool_map[m]}}

\* C25: a connect_* called with a target and a server_id works under the
\* key server_id when that is non-empty and under the target otherwise, and
\* every sessions, exit_stacks and tool_map entry that a step of the call
\* creates is an entry of that key (a tool is named mcp_<key>_<remoteName>).
C25_KeyIsServerIdOrTarget ==
    [][ \A t \in Tasks :
          /\ \A target \in ServerIds, server_id \in Targets :
                ( /\ task[t].pc = "idle"
                  /\ task'[t] # task[t]
                  /\ task'[t].op = "connect"
                  /\ Apply(t, Connect(Cfg(t), target, server_id)) )
                => task'[t].id = IF server_id # NoId THEN server_id ELSE target
          /\ ( /\ task'[t] # task[t]
               /\ task'[t].op = "connect" )
             => /\ Touched \subseteq {task'[t].id}
                /\ \A n \in DOMAIN tool_map' :
                      n \notin DOMAIN tool_map
                      => \E r \in RemoteNames : n = ToolName(task'[t].id, r)
                /\ task'[t].att # None => att_id'[task'[t].att] = task'[t].id
          ]_vars

\* C25 witness: a connect_* with target B and server_id A has succeeded:
\* the session, the exit stack and the tool are registered under A, and
\* nothing is registered under B.
C25_Witness ==
    /\ ConnectSucceeded(Caller)
    /\ task[Caller].target = "B"
    /\ task[Caller].id = "A"
    /\ FullyConnected("A")
    /\ ToolsOf("A") = {ToolName("A", "f")}
    /\ NoEntry("B")

\* ---------------------------------------------------------------- ownership
\* C26: no session is stored under two server ids and no exit stack is
\* stored under two server ids; and when no call is in progress, every
\* proxy of tool_map holds the session that sessions stores for the proxy's
\* server_id.
C26_SessionsExclusivelyOwned ==
    /\ \A s1, s2 \in DictKeys(sessions) :
          s1 # s2 => DictGet(sessions, s1) # DictGet(sessions, s2)
    /\ \A s1, s2 \in ServerIds :
          (s1 # s2 /\ exit_stacks[s1] # None) => exit_stacks[s1] # exit_stacks[s2]
    /\ AllIdle =>
          \A n \in DOMAIN tool_map :
             /\ DictHas(sessions, tool_map[n].server_id)
             /\ tool_map[n].session = DictGet(sessions, tool_map[n].server_id)

\* C26 witness: after A was connected, B was connected and A was connected
\* again, no call is in progress and both servers have a session, an exit
\* stack and tools of their own.
C26_Witness ==
    /\ AllIdle
    /\ DictGet(sessions, "A") = 3
    /\ DictGet(sessions, "B") = 2
    /\ exit_stacks["A"] = 3
    /\ exit_stacks["B"] = 2
    /\ released[1] = <<"session", "transport">>
    /\ ToolsOf("A") # {}
    /\ ToolsOf("B") # {}

\* ------------------------------------------------------ listing while calls run
\* The task that calls list_tools() while the caller connects and
\* disconnects, and the tool list the servers report.
Lister == "t2"
ListLists == {{"f"}}

\* A step of task t in those runs.
Listing(t) ==
    /\ UNCHANGED ncalls
    /\ Scope(t, PlainIds, ListLists)

\* One task connects and disconnects servers, every step of every connect_*
\* succeeding, while another task calls list_tools(); the two interleave at
\* every await.
ListNext ==
    \/ connect_sse(Caller) /\ Clean(Caller) /\ Listing(Caller)
    \/ connect_stdio(Caller) /\ Clean(Caller) /\ Listing(Caller)
    \/ disconnect(Caller) /\ Listing(Caller)
    \/ enter_transport(Caller) /\ Clean(Caller) /\ Listing(Caller)
    \/ enter_session(Caller) /\ Clean(Caller) /\ Listing(Caller)
    \/ session_initialize(Caller) /\ Clean(Caller) /\ Listing(Caller)
    \/ session_list_tools(Caller) /\ Clean(Caller) /\ Listing(Caller)
    \/ session_shutdown(Caller) /\ Listing(Caller)
    \/ exit_stack_aclose(Caller) /\ Listing(Caller)
    \/ list_tools(Lister) /\ Listing(Lister)
    \/ list_tools_response(Lister) /\ Listing(Lister)

ListSpec == Init /\ [][ListNext]_vars

\* C27: whenever the manager's list_tools() issues session.list_tools() on
\* a session, that session is ready: its initialize() has completed and no
\* shutdown of it has begun.
C27_ListToolsOnlyOnReadySessions ==
    [][ \A t \in Tasks :
          ( /\ task'[t] # task[t]
            /\ task'[t].op = "list_tools"
            /\ task'[t].pc = "lt_await" )
          => sess[task'[t].lt_q[Len(task'[t].lt_q)]] = "ready" ]_vars

\* ------------------------------------------------------------- initialization
\* The step of task t issues request pc ("initialize" or "list_tools") of
\* _initialize_and_list_tools on the session of its attempt.
Issues(t, pc) ==
    /\ task'[t] # task[t]
    /\ task'[t].op = "connect"
    /\ task'[t].pc = pc

\* C28: a connect_* issues initialize() only on the session it has just
\* created and stored, which no initialize() was issued on before; it
\* issues list_tools() on that session only when that initialize() has
\* returned; and a session, once created, is never a new session again, so
\* each session gets at most one initialize().
C28_InitializeOncePerSession ==
    [][ /\ \A t \in Tasks :
             /\ Issues(t, "initialize")
                => /\ task[t].pc = "enter_session"
                   /\ task'[t].att = task[t].att
                   /\ sess[task[t].att] = "none"
                   /\ sess'[task[t].att] = "uninitialized"
                   /\ DictGet(sessions', task'[t].id) = task'[t].att
                   /\ \A u \in Tasks \ {t} : task[u].att # task[t].att
             /\ Issues(t, "list_tools")
                => /\ task[t].pc = "initialize"
                   /\ task'[t].att = task[t].att
                   /\ sess'[task[t].att] \in {"ready", "shutdown", "exited"}
        /\ \A k \in Attempts : sess[k] # "none" => sess'[k] # "none" ]_vars

\* C28 witness: a connect_* that replaces a connected server has got the
\* answer to initialize() and is waiting for list_tools() on its new, ready
\* session, the earlier session of the server being exited.
C28_Witness ==
    /\ task[Caller].op = "connect"
    /\ task[Caller].pc = "list_tools"
    /\ task[Caller].was_conn
    /\ sess[task[Caller].att] = "ready"
    /\ DictGet(sessions, task[Caller].id) = task[Caller].att
    /\ \E j \in Attempts : /\ j < task[Caller].att
                           /\ att_id[j] = task[Caller].id
                           /\ sess[j] = "exited"

\* ------------------------------------------------------------ two managers
\* The server and the tool list of the runs with two MCPClients instances.
PeerIds == {"A"}
PeerLists == {{"f"}}

\* The callers of the two instances.
Managers == {Caller, Peer}

\* A step of task t while no call of another task is in progress.
Alone(t) ==
    /\ UNCHANGED ncalls
    /\ Scope(t, PeerIds, PeerLists)
    /\ \A u \in Tasks \ {t} : task[u].pc = "idle"

\* Two MCPClients instances, each with its own caller; the calls are made
\* one after another.
PeerNext ==
    \E t \in Managers :
        \/ connect_sse(t) /\ Alone(t)
        \/ connect_stdio(t) /\ Alone(t)
        \/ disconnect(t) /\ Alone(t)
        \/ enter_transport(t) /\ Alone(t)
        \/ enter_session(t) /\ Alone(t)
        \/ session_initialize(t) /\ Alone(t)
        \/ session_list_tools(t) /\ Alone(t)
        \/ session_shutdown(t) /\ Alone(t)
        \/ exit_stack_aclose(t) /\ Alone(t)

PeerSpec == Init /\ [][PeerNext]_vars

\* C29: a step of a connect_* or disconnect call on the second manager
\* leaves the sessions, the exit stacks and the tools of the first manager
\* unchanged, and shuts down or exits no session that a tool of the first
\* manager is bound to.
C29_ManagersShareNoState ==
    [][ task'[Peer] # task[Peer]
        => /\ UNCHANGED <<sessions, exit_stacks, tool_map, tools>>
           /\ \A n \in DOMAIN tool_map :
                 sess'[tool_map[n].session] = sess[tool_map[n].session]
      ]_vars

\* ---------------------------------------------------------------- bookkeeping
\* The keys of exit_stacks.
ExitStackKeys == {s \in ServerIds : exit_stacks[s] # None}

\* C30: whenever no call is in progress, after any sequence of connects
\* (successful, failed, timed out) and disconnects, exit_stacks and sessions
\* have the same keys.
C30_ExitStacksMatchSessions ==
    AllIdle => ExitStackKeys = DictKeys(sessions)

\* ------------------------------------------------------ concurrent disconnects
\* The step of task t begins the shutdown of session k / the closing of exit
\* stack k.
BeginsShutdown(t, k) ==
    /\ task'[t].pc = "shutdown"
    /\ task'[t].d_sess = k
    /\ ~(task[t].pc = "shutdown" /\ task[t].d_sess = k)

BeginsClose(t, k) ==
    /\ task'[t].pc = "aclose"
    /\ task'[t].d_stack = k
    /\ ~(task[t].pc = "aclose" /\ task[t].d_stack = k)

\* A disconnect of server id is suspended in task u.
Disconnecting(u, id) ==
    /\ task[u].pc \in {"shutdown", "aclose"}
    /\ task[u].d_id = id

\* The tool list of the runs with concurrent disconnects.
DiscLists == {{"f"}}

\* A step of task t on the contended server in those runs.
Contending(t) ==
    /\ UNCHANGED ncalls
    /\ Scope(t, {RaceId}, DiscLists)

\* No call is in progress on a task other than t.
Quiet(t) == \A u \in Tasks \ {t} : task[u].pc = "idle"

\* No connect_* call is in progress.
NoConnect == \A u \in Tasks : task[u].op = "connect" => task[u].pc = "idle"

\* Two tasks call disconnect concurrently and interleave at every await;
\* connect_* is called only while no other call is in progress, and every
\* step of it succeeds.
DiscNext ==
    \E t \in Racers :
        \/ connect_sse(t) /\ Quiet(t) /\ Clean(t) /\ Contending(t)
        \/ connect_stdio(t) /\ Quiet(t) /\ Clean(t) /\ Contending(t)
        \/ disconnect(t) /\ NoConnect /\ Contending(t)
        \/ enter_transport(t) /\ Clean(t) /\ Contending(t)
        \/ enter_session(t) /\ Clean(t) /\ Contending(t)
        \/ session_initialize(t) /\ Clean(t) /\ Contending(t)
        \/ session_list_tools(t) /\ Clean(t) /\ Contending(t)
        \/ session_shutdown(t) /\ Contending(t)
        \/ exit_stack_aclose(t) /\ Contending(t)

DiscSpec == Init /\ [][DiscNext]_vars

\* C31: a session is shut down only by the call that takes it out of
\* sessions (or that has created it in the same step), and a session, once
\* stored, is never stored anew, so its shutdown is attempted at most once;
\* an exit stack is closed only by the call that shut down the session of
\* that stack's server, while no other call is shutting down or closing the
\* same stack; and a disconnect(id) called while another disconnect of id
\* is suspended finds id absent, returns at once and leaves the sessions
\* and the exit stacks as they are.
C31_ConcurrentDisconnectsOnce ==
    [][ \A t \in Tasks :
          /\ \A k \in Attempts :
                /\ BeginsShutdown(t, k)
                   => /\ k \in StoredSessions \/ sess[k] = "none"
                      /\ k \notin StoredSessions'
                      /\ \A u \in Tasks \ {t} : task[u].d_sess # k
                /\ BeginsClose(t, k)
                   => /\ task[t].pc = "shutdown"
                      /\ task[t].d_stack = k
                      /\ \A u \in Tasks \ {t} : task[u].d_stack # k
                /\ (k \notin StoredSessions /\ k \in StoredSessions')
                   => sess[k] = "none"
          /\ \A u \in Tasks \ {t} :
                ( /\ task[t].pc = "idle"
                  /\ task'[t] # task[t]
                  /\ task'[t].op = "disconnect"
                  /\ Disconnecting(u, task'[t].id) )
                => /\ ~DictHas(sessions, task'[t].id)
                   /\ task'[t].pc = "idle"
                   /\ task'[t].res = "ok"
                   /\ UNCHANGED <<sessions, exit_stacks, stack, released,
                                  transport, sess>> ]_vars

\* C31 witness: while the disconnect(A) of one task is closing the exit
\* stack of A, the disconnect(A) of the other task has returned without
\* having found A connected.
C31_Witness ==
    \E t, u \in Racers :
        /\ t # u
        /\ task[u].op = "disconnect"
        /\ task[u].was_conn
        /\ Disconnecting(u, RaceId)
        /\ task[u].pc = "aclose"
        /\ stack[task[u].d_stack] = <<"transport", "session">>
        /\ task[t].op = "disconnect"
        /\ task[t].id = RaceId
        /\ task[t].pc = "idle"
        /\ task[t].res = "ok"
        /\ ~task[t].was_conn

\* ------------------------------------------------ iterating while sessions change
\* The session whose listing call the list_tools() of task t is suspended on.
Awaited(t) == task[t].lt_q[Len(task[t].lt_q)]

\* The servers answer every listing call issued on a ready session: the
\* call raises only on a session that is not ready.
Answering(t) ==
    sess[Awaited(t)] = "ready" => Apply(t, ListToolsResponse(Cfg(t), "ok"))

\* One task connects and disconnects servers, every step of every connect_*
\* succeeding, while another task calls list_tools() on servers that answer
\* every listing call; the two interleave at every await.
IterNext ==
    \/ connect_sse(Caller) /\ Clean(Caller) /\ Listing(Caller)
    \/ connect_stdio(Caller) /\ Clean(Caller) /\ Listing(Caller)
    \/ disconnect(Caller) /\ Listing(Caller)
    \/ enter_transport(Caller) /\ Clean(Caller) /\ Listing(Caller)
    \/ enter_session(Caller) /\ Clean(Caller) /\ Listing(Caller)
    \/ session_initialize(Caller) /\ Clean(Caller) /\ Listing(Caller)
    \/ session_list_tools(Caller) /\ Clean(Caller) /\ Listing(Caller)
    \/ session_shutdown(Caller) /\ Listing(Caller)
    \/ exit_stack_aclose(Caller) /\ Listing(Caller)
    \/ list_tools(Lister) /\ Listing(Lister)
    \/ list_tools_response(Lister) /\ Answering(Lister) /\ Listing(Lister)

IterSpec == Init /\ [][IterNext]_vars

\* C32: a list_tools() of the manager whose listing call on a ready session
\* has been answered does not raise: when it returns after that answer, it
\* returns its result, whatever connect_* and disconnect did to sessions
\* while it was suspended.
C32_ListToolsIterationNeverFails ==
    [][ \A t \in Tasks :
          ( /\ task[t].op = "list_tools"
            /\ task[t].pc = "lt_await"
            /\ sess[Awaited(t)] = "ready"
            /\ task'[t].pc = "idle" )
          => task'[t].res = "ok" ]_vars

\* --------------------------------------------- disconnect() while a server joins
\* The task that connects a new server while the caller runs disconnect(),
\* the id it connects, the id the caller connects, and the tools that every
\* server reports.
Joiner == "t2"
JoinId == "B"
HomeId == "A"
JoinFound == {"f"}

\* A step of task t on server id: no step of a connect_* fails, and a
\* discovery finds the tools JoinFound.
Joining(t, id) ==
    /\ UNCHANGED ncalls
    /\ Scope(t, {id}, {JoinFound})
    /\ chain'.id # NoId => chain'.found = JoinFound
    /\ task'[t].op = "connect" => Clean(t)

\* The joiner calls connect_* for an id that is new: it has no entry in
\* sessions and none in exit_stacks.
NewId(t) ==
    /\ task'[t].id \in ServerIds
    /\ ~DictHas(sessions, task'[t].id)
    /\ exit_stacks[task'[t].id] = None

\* The caller connects HomeId, disconnects it and calls disconnect(), while
\* the joiner connects JoinId when it is a new id; the two interleave at
\* every await.
JoinNext ==
    \/ connect_sse(Caller) /\ Joining(Caller, HomeId)
    \/ connect_stdio(Caller) /\ Joining(Caller, HomeId)
    \/ disconnect(Caller) /\ Joining(Caller, HomeId)
    \/ connect_sse(Joiner) /\ NewId(Joiner) /\ Joining(Joiner, JoinId)
    \/ connect_stdio(Joiner) /\ NewId(Joiner) /\ Joining(Joiner, JoinId)
    \/ \E t \in {Caller, Joiner} :
          \/ enter_transport(t) /\ Joining(t, task[t].id)
          \/ enter_session(t) /\ Joining(t, task[t].id)
          \/ session_initialize(t) /\ Joining(t, task[t].id)
          \/ session_list_tools(t) /\ Joining(t, task[t].id)
          \/ session_shutdown(t) /\ Joining(t, task[t].id)
          \/ exit_stack_aclose(t) /\ Joining(t, task[t].id)

JoinSpec == Init /\ [][JoinNext]_vars

\* C33: when a disconnect() of the caller and a connect_* of the joiner for
\* a new id have both returned, every server whose ready session is stored
\* in sessions has the tools it reported registered in tool_map.
C33_DisconnectAllKeepsConnectedTools ==
    ( /\ AllIdle
      /\ task[Caller].op = "disconnect_all"
      /\ ConnectSucceeded(Joiner) )
    => \A id \in ServerIds :
          (DictHas(sessions, id) /\ sess[DictGet(sessions, id)] = "ready")
          => ToolsAre(id, JoinFound)

\* ------------------------------------------------------- frame of disconnect
\* The tool list of the servers in the runs that connect and disconnect
\* two servers.
FrameLists == {{"f"}}

\* A step of the one caller in those runs.
Framed ==
    /\ UNCHANGED ncalls
    /\ Scope(Caller, PlainIds, FrameLists)

\* One caller connects and disconnects two servers; every await can
\* succeed, raise or time out.
FrameNext ==
    \/ connect_sse(Caller) /\ Framed
    \/ connect_stdio(Caller) /\ Framed
    \/ disconnect(Caller) /\ Framed
    \/ enter_transport(Caller) /\ Framed
    \/ enter_session(Caller) /\ Framed
    \/ session_initialize(Caller) /\ Framed
    \/ session_list_tools(Caller) /\ Framed
    \/ session_shutdown(Caller) /\ Framed
    \/ exit_stack_aclose(Caller) /\ Framed

FrameSpec == Init /\ [][FrameNext]_vars

\* The tool_map entries of server id in tool map tm.
ToolEntries(tm, id) ==
    {<<n, tm[n]>> : n \in {m \in DOMAIN tm : tm[m].server_id = id}}

\* C34: no step of a disconnect(id) for a connected id, from the call to
\* its return, changes anything of another server id s: the session and
\* the exit stack stored for s and the tool_map entries of s stay as they
\* are, and no session, transport or exit stack made for s is shut down,
\* closed or released.
C34_DisconnectTouchesOnlyItsId ==
    [][ \A t \in Tasks :
          ( /\ task'[t] # task[t]
            /\ task'[t].op = "disconnect"
            /\ task'[t].was_conn )
          => \A s \in ServerIds \ {task'[t].id} :
                /\ DictHas(sessions', s) = DictHas(sessions, s)
                /\ DictGet(sessions', s) = DictGet(sessions, s)
                /\ exit_stacks'[s] = exit_stacks[s]
                /\ ToolEntries(tool_map', s) = ToolEntries(tool_map, s)
                /\ \A k \in Attempts :
                      att_id[k] = s
                      => /\ sess'[k] = sess[k]
                         /\ transport'[k] = transport[k]
                         /\ stack'[k] = stack[k]
                         /\ released'[k] = released[k] ]_vars

\* disconnect("A") of the connected server A has returned; server B, which
\* was connected too, is still in service.
C34_Witness ==
    /\ task[Caller].op = "disconnect"
    /\ task[Caller].pc = "idle"
    /\ task[Caller].id = "A"
    /\ task[Caller].was_conn
    /\ NoEntry("A")
    /\ InService("B")

\* ------------------------------------------------------------- empty target
\* C35: a connect_sse with an empty URL or a connect_stdio with an empty
\* command, whatever server_id it is given, raises at once and changes
\* nothing: sessions, exit_stacks, tool_map and tools are as before, no
\* attempt is made, and no session, transport or exit stack is shut down,
\* opened, closed or released.
C35_EmptyTargetRaisesFirst ==
    [][ \A t \in Tasks :
          ( /\ task[t].pc = "idle"
            /\ \E server_id \in Targets : Apply(t, Connect(Cfg(t), NoId, server_id)) )
          => /\ task'[t].pc = "idle"
             /\ task'[t].res = "raised"
             /\ UNCHANGED <<sessions, exit_stacks, tool_map, tools, nattempts,
                            att_id, sess, transport, stack, released>> ]_vars

\* A connect_* with an empty target has raised while server A was in
\* service.
C35_Witness ==
    /\ task[Caller].op = "connect"
    /\ task[Caller].pc = "idle"
    /\ task[Caller].res = "raised"
    /\ task[Caller].target = NoId
    /\ task[Caller].att = None
    /\ InService("A")

\* ------------------------------------------------------------ MarketIndexTool
\* The task that runs the background initialization which the constructor
\* creates, and the task that calls execute.
Background == "t1"
Executor == "t2"

\* The names that _run passes to call_mcp_tool, in the order of the calls.
RunNames == <<"get_index_realtime_data", "get_turnover_history_data">>

\* The values of "type" in a server's configuration, and the url (or the
\* command) of the first and of the second configured server.
ServerTypes == {"sse", "stdio", "http"}
ServerTargets == <<"A", "B">>

\* The configurations of the server at position i of mcpServers.
ServerConfigs(i) ==
    {[enabled |-> e, type |-> ty,
      url |-> ServerTargets[i], command |-> ServerTargets[i]] :
        e \in BOOLEAN, ty \in ServerTypes}

\* The configurations with one or two servers.
Configs ==
    {[enabled |-> e, mcpServers |-> ms] :
        e \in BOOLEAN,
        ms \in {<<a>> : a \in ServerConfigs(1)}
               \cup {<<a, b>> : a \in ServerConfigs(1), b \in ServerConfigs(2)}}

\* MarketIndexTool.__init__ with configuration config, on a new manager: an
\* enabled tool creates the task that runs _sync_initialize.
MarketIndexTool(config) ==
    /\ Constructed
    /\ mcp_config = config
    /\ initialized = FALSE
    /\ frame = [t \in Tasks |->
                  IF t = Background /\ config.enabled
                  THEN [IdleFrame EXCEPT !.fn = "_sync_initialize",
                                         !.at = "created"]
                  ELSE IdleFrame]
    /\ connects = [i \in 1..Len(config.mcpServers) |-> 0]

\* The tool and its manager as task t sees them.
MarketCfg(t) ==
    [c |-> Cfg(t), initialized |-> initialized, fr |-> frame[t],
     connects |-> connects]

\* The step of task t in the tool that ends in m.
MarketApply(t, m) ==
    /\ Assign(t, m.c)
    /\ initialized' = m.initialized
    /\ frame' = [frame EXCEPT ![t] = m.fr]
    /\ connects' = m.connects
    /\ UNCHANGED mcp_config

\* The tool-level call of the frame returns.
Leave(m, result) ==
    [m EXCEPT !.fr = [m.fr EXCEPT !.at = "idle", !.result = result]]

\* _run from its n-th call_mcp_tool on: the name is handed to the manager's
\* execute; when that returns without an await the next call follows, and
\* after the last call _run returns its result.
RECURSIVE RunCalls(_, _)
RunCalls(m, n) ==
    IF n > Len(RunNames) THEN Leave(m, "returned")
    ELSE LET c1 == Execute(m.c, RunNames[n])
             m1 == [m EXCEPT
                      !.c = c1,
                      !.fr = [m.fr EXCEPT
                                !.names = Append(@, RunNames[n]),
                                !.found = Append(@, RunNames[n] \in DOMAIN m.c.tool_map)]]
         IN IF c1.tk.pc = "idle" THEN RunCalls(m1, n + 1)
            ELSE [m1 EXCEPT !.fr = [m1.fr EXCEPT !.at = "_run"]]

\* _run: call_mcp_tool raises without a manager (the tool is not enabled),
\* which _run turns into a failed result.
Run(m) ==
    IF ~mcp_config.enabled THEN Leave(m, "error") ELSE RunCalls(m, 1)

\* initialize() has returned to _sync_initialize or to execute: both set
\* _initialized, and execute goes on to _run.
InitializeReturn(m) ==
    LET m1 == [m EXCEPT !.initialized = TRUE,
                        !.fr = [m.fr EXCEPT !.init = "done"]]
    IN IF m.fr.fn = "execute" THEN Run(m1) ELSE Leave(m1, "returned")

\* The server at position i is enabled and has a type initialize() connects.
Connectable(i) ==
    /\ mcp_config.mcpServers[i].enabled
    /\ mcp_config.mcpServers[i].type \in {"sse", "stdio"}

\* The loop of initialize() from the server at position i on, up to the
\* next await: a disabled server and a server of another type are passed
\* over, connect_sse(url) or connect_stdio(command, args) is called for the
\* others, and after the last server _initialized is set.
RECURSIVE InitializeLoop(_, _)
InitializeLoop(m, i) ==
    IF i > Len(mcp_config.mcpServers)
    THEN InitializeReturn([m EXCEPT !.initialized = TRUE])
    ELSE LET server_config == mcp_config.mcpServers[i]
             target == IF server_config.type = "sse" THEN server_config.url
                       ELSE server_config.command
             c1 == Connect(m.c, target, NoId)
             m1 == [m EXCEPT
                      !.c = c1,
                      !.connects = [m.connects EXCEPT ![i] = @ + 1],
                      !.fr = [m.fr EXCEPT
                                !.at = "initialize", !.i = i,
                                !.tried = Append(@, i),
                                !.failed = IF c1.tk.pc = "idle"
                                           THEN @ \cup {i} ELSE @]]
         IN IF ~Connectable(i) THEN InitializeLoop(m, i + 1)
            ELSE IF c1.tk.pc = "idle" THEN InitializeLoop(m1, i + 1)
            ELSE m1

\* initialize() up to its first await.
Initialize(m) ==
    IF ~mcp_config.enabled
    THEN InitializeReturn([m EXCEPT !.initialized = TRUE])
    ELSE InitializeLoop([m EXCEPT !.fr = [m.fr EXCEPT !.init = "running"]], 1)

\* Mutant of InitializeResume: a connect_* that raised ends initialize(),
\* which clears _initialized and raises.
InitializeResume_StopsAtFailure(m) ==
    IF m.c.tk.res = "raised"
    THEN Leave([m EXCEPT !.initialized = FALSE,
                         !.fr = [m.fr EXCEPT !.init = "raised",
                                             !.failed = @ \cup {m.fr.i}]],
               "raised")
    ELSE InitializeLoop(m, m.fr.i + 1)

\* The connect_* that initialize() awaited is over: when it raised, the
\* error is logged and the loop continues with the next server, as it does
\* when the call returned.
InitializeResume(m) ==
    InitializeLoop([m EXCEPT !.fr = [m.fr EXCEPT
                      !.failed = IF m.c.tk.res = "raised"
                                 THEN @ \cup {m.fr.i} ELSE @]],
                   m.fr.i + 1)

\* _sync_initialize up to its first await.
SyncInitialize(m) ==
    Initialize([m EXCEPT !.fr = [IdleFrame EXCEPT !.fn = "_sync_initialize"]])

\* MarketIndexTool.execute up to its first await: initialize() runs when
\* _initialized is not set, then _run.
MarketIndexExecute(m) ==
    LET m0 == [m EXCEPT !.fr = [IdleFrame EXCEPT !.fn = "execute"]]
    IN IF ~m.initialized THEN Initialize(m0) ELSE Run(m0)

\* The servers from position i on that initialize() calls connect_* for.
Remaining(i) == {j \in i..Len(mcp_config.mcpServers) : Connectable(j)}

\* An exit stack can still be created for one more connect_*.
HasAttempt == nattempts + Pending < MaxAttempts

\* The event loop starts the task of _sync_initialize.
sync_initialize(t) ==
    /\ frame[t].at = "created"
    /\ Remaining(1) # {} => HasAttempt
    /\ MarketApply(t, SyncInitialize(MarketCfg(t)))

\* A task calls MarketIndexTool.execute.
market_index_execute(t) ==
    /\ frame[t].at = "idle"
    /\ task[t].pc = "idle"
    /\ (~initialized /\ mcp_config.enabled /\ Remaining(1) # {}) => HasAttempt
    /\ MarketApply(t, MarketIndexExecute(MarketCfg(t)))

\* The connect_* awaited by initialize() has returned or raised, and
\* initialize() runs on to its next await or to its end.
initialize_resume(t) ==
    /\ frame[t].at = "initialize"
    /\ task[t].pc = "idle"
    /\ Remaining(frame[t].i + 1) # {} => HasAttempt
    /\ MarketApply(t, InitializeResume(MarketCfg(t)))

\* No coroutine of the tool is between the return of a manager call and
\* the statement after its await: that stretch runs without suspension.
Settled ==
    \A u \in Tasks : frame[u].at \in {"initialize", "_run"} => task[u].pc # "idle"

\* A step of task t of the tool: its server reports the tools that _run
\* calls.
Serving(t) ==
    /\ UNCHANGED ncalls
    /\ task'[t].id \in {ServerTargets[i] : i \in 1..Len(ServerTargets)} \cup {NoId}
    /\ chain'.found \in {IndexTools, {}}
    /\ chain'.id # NoId => chain'.found = IndexTools

\* The background task has run to its end, or was never created.
BackgroundDone == frame[Background].at = "idle"

\* The tool is constructed with any configuration; the background task
\* initializes it, and execute is called when that task is over. Every
\* await of a connect_* can succeed, raise or time out.
IndexNext ==
    \/ sync_initialize(Background) /\ Serving(Background)
    \/ market_index_execute(Executor) /\ BackgroundDone /\ Serving(Executor)
    \/ \E t \in {Background, Executor} :
          \/ initialize_resume(t) /\ Serving(t)
          \/ enter_transport(t) /\ Settled /\ Serving(t)
          \/ enter_session(t) /\ Settled /\ Serving(t)
          \/ session_initialize(t) /\ Settled /\ Serving(t)
          \/ session_list_tools(t) /\ Settled /\ Serving(t)
          \/ session_shutdown(t) /\ Settled /\ Serving(t)
          \/ exit_stack_aclose(t) /\ Settled /\ Serving(t)

IndexSpec == (\E config \in Configs : MarketIndexTool(config)) /\ [][IndexNext]_vars

\* The configurations of an enabled tool with one server.
EnabledConfigs ==
    {config \in Configs : config.enabled /\ Len(config.mcpServers) = 1}

\* An enabled tool is constructed and execute is called at any moment: the
\* background task and the caller of execute interleave at every await.
MarketNext ==
    \/ sync_initialize(Background) /\ Settled /\ Serving(Background)
    \/ market_index_execute(Executor) /\ Settled /\ Serving(Executor)
    \/ \E t \in {Background, Executor} :
          \/ initialize_resume(t) /\ Serving(t)
          \/ enter_transport(t) /\ Settled /\ Serving(t)
          \/ enter_session(t) /\ Settled /\ Serving(t)
          \/ session_initialize(t) /\ Settled /\ Serving(t)
          \/ session_list_tools(t) /\ Settled /\ Serving(t)
          \/ session_shutdown(t) /\ Settled /\ Serving(t)
          \/ exit_stack_aclose(t) /\ Settled /\ Serving(t)

MarketSpec ==
    (\E config \in EnabledConfigs : MarketIndexTool(config)) /\ [][MarketNext]_vars

\* C36: initialize() of an enabled tool calls connect_* at most once for
\* each configured server, and at most one initialize() is running at any
\* moment.
C36_InitializeRunsOnce ==
    /\ \A i \in DOMAIN connects : connects[i] <= 1
    /\ Cardinality({t \in Tasks : frame[t].init = "running"}) <= 1

\* The positions of the configured servers, and the set of the positions in
\* a sequence of them.
Positions == 1..Len(mcp_config.mcpServers)
Range(q) == {q[k] : k \in 1..Len(q)}

\* The url or the command of a disabled server names no connection: the
\* server has had no connect_* call and has no session and no exit stack.
DisabledNeverConnected ==
    \A i \in Positions :
        ~mcp_config.mcpServers[i].enabled
        => /\ connects[i] = 0
           /\ \A t \in Tasks : i \notin Range(frame[t].tried)
           /\ ~DictHas(sessions, ServerTargets[i])
           /\ exit_stacks[ServerTargets[i]] = None

\* Task t has called initialize() and is not suspended in it any more.
InitializeOver(t) == frame[t].init # "no" /\ frame[t].at # "initialize"

\* C37 as claimed: an initialize() of an enabled tool that has returned has
\* called connect_* for every enabled server of the configuration, whatever
\* the connect_* of the other servers did, has called it for no disabled
\* server, and has ended with _initialized set.
C37_InitializeTriesEveryEnabledServer ==
    /\ DisabledNeverConnected
    /\ \A t \in Tasks :
          (mcp_config.enabled /\ InitializeOver(t))
          => /\ initialized
             /\ Range(frame[t].tried) =
                   {i \in Positions : mcp_config.mcpServers[i].enabled}

\* C37, amended: an initialize() of an enabled tool that has returned has
\* called connect_* for every enabled server whose type is "sse" or
\* "stdio", whatever the connect_* of the other servers did, has called it
\* for no disabled server, and has ended with _initialized set.
C37_InitializeTriesEveryConnectableServer ==
    /\ DisabledNeverConnected
    /\ \A t \in Tasks :
          (mcp_config.enabled /\ InitializeOver(t))
          => /\ initialized
             /\ Range(frame[t].tried) = {i \in Positions : Connectable(i)}

\* initialize() has returned: connect_* of the first server raised, the
\* second server was connected after that and is in service.
C37_Witness ==
    /\ frame[Background].init = "done"
    /\ frame[Background].failed = {1}
    /\ frame[Background].tried = <<1, 2>>
    /\ NoEntry(ServerTargets[1])
    /\ InService(ServerTargets[2])
    /\ initialized

\* A server that initialize() connected is in service and has registered
\* the tools that _run calls.
IndexServerInService ==
    \E i \in Positions :
        /\ InService(ServerTargets[i])
        /\ ToolsOf(ServerTargets[i]) = {ToolName(ServerTargets[i], r) : r \in IndexTools}

\* C38: when initialize() has connected a server that reports
\* get_index_realtime_data and get_turnover_history_data, every name that
\* _run has passed to the manager's execute was a key of tool_map at the
\* call and is one now, so no call was answered with tool-not-found.
C38_RunNamesAreRegistered ==
    \A t \in Tasks :
        \A k \in 1..Len(frame[t].names) :
            IndexServerInService
            => /\ frame[t].found[k]
               /\ frame[t].names[k] \in DOMAIN tool_map

====
